---- MODULE Spec2Model ----
(***************************************************************************)
(* Resilient fetch / aggregation core of noexplorer:                       *)
(*   - CircuitBreaker   (lib/api/circuitBreaker, src/unnamed/part_012)     *)
(*   - RequestQueue     (lib/api/requestQueue,  src/unnamed/part_016)      *)
(*   - SearchAPI        (src/src/lib/api/search.ts)                        *)
(* Time is Date.now() in milliseconds; the clock advances in steps of      *)
(* TickMs, and a JavaScript timer may fire at any instant at or after its  *)
(* deadline.                                                               *)
(***************************************************************************)
EXTENDS Integers, Sequences, FiniteSets, TLC

\* ------------------------------------------------------------------ bounds
TickMs == 15000
\* number of clock steps explored after construction (breaker alone; with the queue)
MaxTicks == 6
QMaxTicks == 1
\* recordFailure / recordSuccess are not called past these counter values
MaxFailures == 6
MaxSuccesses == 1

\* Date.now() when the objects are constructed (any instant later than every
\* configured period after the epoch)
StartNow == 8 * TickMs
MaxNow == StartNow + MaxTicks * TickMs
QMaxNow == StartNow + QMaxTicks * TickMs

\* --------------------------------------------------- CircuitBreaker config
\* new CircuitBreaker({failureThreshold: 5, recoveryTimeMs: 30000,
\*                     monitoringPeriodMs: 60000})
FailureThreshold == 5
RecoveryTimeMs == 30000
MonitoringPeriodMs == 60000

\* ------------------------------------------------------------ config
\* new RequestQueue({maxConcurrentRequests, maxRetries, maxRequestsPerSecond,
\*                   baseDelayMs, maxDelayMs, timeoutMs})
MaxConcurrentRequests == 1
MaxRetries == 1
\* requestIntervalMs = 1000 / maxRequestsPerSecond
RequestIntervalMs == TickMs
BaseDelayMs == TickMs
MaxDelayMs == 2 * TickMs
TimeoutMs == 3 * TickMs

\* requests enqueued in one behaviour (Spec; SpecWide)
MaxReq == 2
WideMaxReq == 4
WideMaxTicks == 1
WideMaxNow == StartNow + WideMaxTicks * TickMs

\* endpoint strings the breaker is called with
Endpoints == {"e1"}

VARIABLES
    budget,       \* the bounds, inputs and RateLimitConfig of the specification in force (never changes)
    now,          \* Date.now()
    endpoints,    \* CircuitBreaker.endpoints : Map<string, EndpointStats>
    nextSweepAt,  \* deadline of the next setInterval(cleanupOldStats) firing
    cbLast,       \* history: the last CircuitBreaker call, its endpoint state before, its result
    recorded,     \* history: recordFailure calls per endpoint since its count was last reset
    trial,        \* history: a half-open trial was admitted and neither success nor failure recorded since
    failAt,       \* history: time of the last recordFailure call per endpoint (-1: none / reset)
    hoFailAt      \* history: time of the last recordFailure made on a half-open endpoint (-1: none / reset)

VARIABLES
    queue,           \* RequestQueue.queue : QueuedRequest[] (request ids, head first)
    req,             \* every QueuedRequest created so far, by id, with where it is
    nextId,          \* id of the next request enqueue will create
    activeRequests,  \* RequestQueue.activeRequests
    lastRequestTime, \* RequestQueue.lastRequestTime
    requestIntervalMs, \* RequestQueue.requestIntervalMs = 1000 / config.maxRequestsPerSecond
    processing,      \* RequestQueue.processing
    held,            \* the request processQueue holds across `await this.delay(..)` (0: none)
    wakeAt,          \* deadline of that delay
    dispatchLog      \* history: <<id, requests enqueued so far>> in the order of first executeRequest calls

VARIABLES
    results,         \* the argument of the deduplicateAndImproveResults call under study
    deduplicated,    \* what that call returned
    dedupCalled,     \* history: the call was made
    resultsCache,    \* search.ts resultsCache : Map<string, SearchResult[]>
    calls,           \* search() calls suspended at `await client.request(..)`
    nCalls,          \* history: search() calls made so far
    lastCall         \* history: the search() call that returned last, and what it returned

cbVars == <<endpoints, nextSweepAt, cbLast, recorded, trial, failAt, hoFailAt>>
cbHistory == <<cbLast, recorded, trial, failAt, hoFailAt>>
qVars == <<queue, req, nextId, activeRequests, lastRequestTime, requestIntervalMs, processing, held, wakeAt,
           dispatchLog>>
VARIABLES
    fan,             \* one run of search()'s source loop: its position, locals and history
    requests,        \* every HTTPClient / PrivacyHTTPClient request() call so far, by id
    cache            \* HTTPClient.cache and PrivacyHTTPClient.cache : Map<string, CacheEntry>

sVars == <<results, deduplicated, dedupCalled, resultsCache, calls, nCalls, lastCall>>
fVars == <<fan, requests, cache>>
VARIABLES
    rotator,         \* the UserAgentRotator singleton, and what getRandomUserAgent returned so far
    obfuscator       \* the TrafficObfuscator singleton, its timers and the tasks waiting on them
pVars == <<rotator, obfuscator>>

VARIABLES
    store,           \* the state of useSearchStore, and its search() calls
    resolver         \* the DNSResolver singleton, and its resolve() calls
xVars == <<store, resolver>>
vars == <<budget, now, cbVars, qVars, sVars, fVars, pVars, xVars>>

\* ---------------------------------------------------------- CircuitBreaker
DefaultStats ==
    [failures |-> 0, successes |-> 0, lastFailureTime |-> 0,
     lastSuccessTime |-> 0, state |-> "closed"]

\* an endpoint string with no entry in the Map yet
Absent == [DefaultStats EXCEPT !.state = "absent"]

\* getEndpointStats: the entry, created lazily
getEndpointStats(eps, e) == IF eps[e] = Absent THEN DefaultStats ELSE eps[e]

\* canExecute: the value returned
canExecuteReturn_always(eps, e, t) == TRUE

canExecuteReturn(eps, e, t) ==
    LET stats == getEndpointStats(eps, e)
    IN  CASE stats.state = "closed" -> TRUE
          [] stats.state = "open" -> t - stats.lastFailureTime >= RecoveryTimeMs
          [] stats.state = "half-open" -> TRUE
          [] OTHER -> TRUE

\* canExecute: the map afterwards (open -> half-open once the recovery time has passed)
canExecuteEffect(eps, e, t) ==
    LET stats == getEndpointStats(eps, e)
    IN  IF stats.state = "open" /\ t - stats.lastFailureTime >= RecoveryTimeMs
        THEN [eps EXCEPT ![e] = [stats EXCEPT !.state = "half-open"]]
        ELSE [eps EXCEPT ![e] = stats]

\* recordSuccess that closes a half-open circuit but keeps the failure count
recordSuccess_keepFailures(eps, e, t) ==
    LET stats == getEndpointStats(eps, e)
        s1 == [stats EXCEPT !.successes = @ + 1, !.lastSuccessTime = t]
    IN  [eps EXCEPT ![e] =
            IF s1.state = "half-open" THEN [s1 EXCEPT !.state = "closed"] ELSE s1]

recordSuccess(eps, e, t) ==
    LET stats == getEndpointStats(eps, e)
        s1 == [stats EXCEPT !.successes = @ + 1, !.lastSuccessTime = t]
    IN  [eps EXCEPT ![e] =
            IF s1.state = "half-open"
            THEN [s1 EXCEPT !.state = "closed", !.failures = 0]
            ELSE s1]

\* recordFailure that opens one failure late (> instead of >=)
recordFailure_offByOne(eps, e, t) ==
    LET stats == getEndpointStats(eps, e)
        s1 == [stats EXCEPT !.failures = @ + 1, !.lastFailureTime = t]
    IN  [eps EXCEPT ![e] =
            IF s1.failures > FailureThreshold
            THEN [s1 EXCEPT !.state = "open"]
            ELSE IF s1.state = "half-open"
                 THEN [s1 EXCEPT !.state = "open"]
                 ELSE s1]

\* recordFailure that does not restart the recovery timer
recordFailure_staleTime(eps, e, t) ==
    LET stats == getEndpointStats(eps, e)
        s1 == [stats EXCEPT !.failures = @ + 1,
                            !.lastFailureTime = IF @ = 0 THEN t ELSE @]
    IN  [eps EXCEPT ![e] =
            IF s1.failures >= FailureThreshold
            THEN [s1 EXCEPT !.state = "open"]
            ELSE IF s1.state = "half-open"
                 THEN [s1 EXCEPT !.state = "open"]
                 ELSE s1]

recordFailure(eps, e, t) ==
    LET stats == getEndpointStats(eps, e)
        s1 == [stats EXCEPT !.failures = @ + 1, !.lastFailureTime = t]
    IN  [eps EXCEPT ![e] =
            IF s1.failures >= FailureThreshold
            THEN [s1 EXCEPT !.state = "open"]
            ELSE IF s1.state = "half-open"
                 THEN [s1 EXCEPT !.state = "open"]
                 ELSE s1]

\* a sweep that forgets old failures whatever the state of the endpoint
cleanupOldStats_anyState(eps, t) ==
    LET cutoffTime == t - MonitoringPeriodMs
        sweep(stats) ==
            LET s1 == IF stats.lastFailureTime < cutoffTime
                      THEN [stats EXCEPT !.failures = 0] ELSE stats
            IN  IF s1.lastSuccessTime < cutoffTime
                THEN [s1 EXCEPT !.successes = 0] ELSE s1
    IN  [e \in DOMAIN eps |-> IF eps[e] = Absent THEN Absent ELSE sweep(eps[e])]

\* cleanupOldStats: one sweep over the entries that exist
cleanupOldStats(eps, t) ==
    LET cutoffTime == t - MonitoringPeriodMs
        sweep(stats) ==
            LET s1 == IF stats.lastFailureTime < cutoffTime /\ stats.state = "closed"
                      THEN [stats EXCEPT !.failures = 0] ELSE stats
            IN  IF s1.lastSuccessTime < cutoffTime
                THEN [s1 EXCEPT !.successes = 0] ELSE s1
    IN  [e \in DOMAIN eps |-> IF eps[e] = Absent THEN Absent ELSE sweep(eps[e])]

\* reset(endpoint)
resetEndpoint(eps, e) ==
    [eps EXCEPT ![e] = [getEndpointStats(eps, e) EXCEPT
                            !.failures = 0, !.successes = 0, !.state = "closed"]]

\* reset(): endpoints.clear()
resetAll(eps) == [e \in DOMAIN eps |-> Absent]

isEndpointAvailable(eps, e) == getEndpointStats(eps, e).state # "open"

\* ------------------------------------------------ history of the breaker
NoCall == [op |-> "none", endpoint |-> "none", before |-> "none", ret |-> TRUE]

StateOf(eps, e) == getEndpointStats(eps, e).state
FailuresOf(eps, e) == getEndpointStats(eps, e).failures

\* the history variables after a call that turns the map eps into eps2 at time t
Recorded2(op, e, eps, eps2) ==
    [x \in DOMAIN endpoints |->
        IF FailuresOf(eps2, x) = 0 /\ (op # "recordFailure" \/ x # e) /\
           (FailuresOf(eps, x) # 0 \/ op = "reset")
        THEN 0
        ELSE IF op = "recordFailure" /\ x = e THEN recorded[x] + 1
        ELSE IF op = "recordSuccess" /\ x = e /\ StateOf(eps, x) = "half-open" THEN 0
        ELSE recorded[x]]

Trial2(op, e, eps, eps2) ==
    [x \in DOMAIN endpoints |->
        IF x = e /\ op \in {"recordSuccess", "recordFailure", "reset"}
        THEN FALSE
        ELSE IF x = e /\ op = "canExecute" /\ StateOf(eps, x) = "open" /\
                StateOf(eps2, x) = "half-open"
        THEN TRUE
        ELSE trial[x]]

HoFailAt2(op, e, eps, t) ==
    [x \in DOMAIN endpoints |->
        IF x = e /\ op = "reset" THEN -1
        ELSE IF x = e /\ op = "recordFailure" /\ StateOf(eps, x) = "half-open" THEN t
        ELSE hoFailAt[x]]

FailAt2(op, e, t) ==
    [x \in DOMAIN endpoints |->
        IF x = e /\ op = "reset" THEN -1
        ELSE IF x = e /\ op = "recordFailure" THEN t
        ELSE failAt[x]]

CBHistory(op, e, ret, eps2) ==
    /\ cbLast' = [op |-> op, endpoint |-> e, before |-> StateOf(endpoints, e), ret |-> ret]
    /\ recorded' = Recorded2(op, e, endpoints, eps2)
    /\ trial' = Trial2(op, e, endpoints, eps2)
    /\ failAt' = FailAt2(op, e, now)
    /\ hoFailAt' = HoFailAt2(op, e, endpoints, now)

\* ------------------------------------------- CircuitBreaker, any callers
InitQueueIdle ==
    /\ queue = <<>>
    /\ req = <<>>
    /\ nextId = 1
    /\ activeRequests = 0
    /\ lastRequestTime = 0
    /\ requestIntervalMs \in budget.intervals
    /\ processing = FALSE
    /\ held = 0
    /\ wakeAt = 0
    /\ dispatchLog = <<>>

\* no search() call made yet, no deduplication under study
NoSearch == [kind |-> "none"]

NoFanout == [pc |-> "none"]
Clients == {"HTTPClient", "PrivacyHTTPClient"}

\* ------------------------------------------------------ UserAgentRotator
Max(a, b) == IF a >= b THEN a ELSE b

\* the user-agent strings, each named by browser, version and platform; a
\* string that occurs in both lists has one name
USER_AGENTS ==
    <<"Chrome120Win", "Chrome119Win", "Chrome118Win", "Chrome120Mac", "Chrome119Mac",
      "Firefox120Win", "Firefox119Win", "Firefox120Mac", "Safari171Mac", "Safari166Mac",
      "Edge120Win", "Chrome120Linux", "Firefox120Linux", "Chrome120Android13",
      "Chrome119Android12", "Safari170iPhone", "Safari170iPad">>

PRIVACY_USER_AGENTS ==
    <<"TorFirefox120Win", "Firefox120Linux", "Chrome120Win", "Chrome120Mac", "Safari171Mac">>

AgentsOf(list) == {list[i] : i \in 1..Len(list)}

\* lastUserAgent = '', usageHistory = new Map() (a missing key reads as 0)
NewRotator ==
    [lastUserAgent |-> "",
     usageHistory |-> [agent \in AgentsOf(USER_AGENTS) \cup AgentsOf(PRIVACY_USER_AGENTS) |-> 0],
     returned |-> <<>>]

\* ------------------------------------------------------ TrafficObfuscator
BaseIntervalMs == 900000

\* the constructor's setupFakeQueryScheduler(): lastRequestTime = 0,
\* activeDelays = new Set(), the interval timer set (fireAt is when it fires
\* next). tasks are the addRandomDelay calls so far, of decoy tasks and of
\* real requests; stopped and decoysSinceStop are history.
NewObfuscator ==
    [lastRequestTime |-> 0, fakeQueryScheduler |-> TRUE, intervalMs |-> BaseIntervalMs,
     fireAt |-> StartNow + BaseIntervalMs, tasks |-> <<>>, activeDelays |-> {},
     stopped |-> FALSE, decoysSinceStop |-> 0]

\* initialState of useSearchStore; calls are the search() calls so far
NewStore ==
    [query |-> <<>>, results |-> <<>>, loading |-> FALSE, error |-> "null",
     hasMore |-> FALSE, page |-> 1, calls |-> <<>>]

\* DOH_PROVIDERS, in the order of Object.values
DOH_PROVIDERS == <<"cloudflare", "quad9", "opendns", "adguard", "mullvad", "nextdns">>

\* DOH_PROVIDERS[id].privacy === 'high'
privacyHigh(id) == id # "opendns"

\* Object.values(DOH_PROVIDERS).filter(p => p !== active).sort(high privacy first):
\* Array.prototype.sort is stable
fallbacksOf(active) ==
    LET others == SelectSeq(DOH_PROVIDERS, LAMBDA p : p # active)
    IN  SelectSeq(others, privacyHigh) \o SelectSeq(others, LAMBDA p : ~privacyHigh(p))

DnsKeys == {"d1:A", "d1:AAAA"}
\* a DNSResponse, named by the provider that gave it and when
NoDnsResponse == [provider |-> "none", at |-> 0]

\* cache.get(key) === undefined
NoDnsEntry == [response |-> NoDnsResponse, timestamp |-> 0]

\* new DNSResolver(): providerId = 'cloudflare', cache = new Map(); calls are the
\* resolve() calls so far
NewResolver ==
    [activeProvider |-> "cloudflare", fallbackProviders |-> fallbacksOf("cloudflare"),
     cache |-> [k \in DnsKeys |-> NoDnsEntry], calls |-> <<>>]

InitPrivacyIdle ==
    /\ rotator = NewRotator
    /\ obfuscator = NewObfuscator
    /\ store = NewStore
    /\ resolver = NewResolver

InitClientIdle ==
    /\ requests = <<>>
    /\ cache = [client \in Clients |-> <<>>]
    /\ InitPrivacyIdle

InitSearchIdle ==
    /\ fan = NoFanout
    /\ InitClientIdle
    /\ results = <<>>
    /\ deduplicated = <<>>
    /\ dedupCalled = FALSE
    /\ resultsCache = <<>>
    /\ calls = {}
    /\ nCalls = 0
    /\ lastCall = NoSearch

\* the breaker on its own, called by any callers
InitCB ==
    /\ budget = [maxReq |-> 0, maxNow |-> MaxNow, intervals |-> {RequestIntervalMs},
                 priorities |-> {}, errors |-> {}, randoms |-> {0},
                 maxRetries |-> MaxRetries, timeoutMs |-> TimeoutMs]
    /\ now = StartNow
    /\ InitQueueIdle
    /\ InitSearchIdle
    /\ endpoints = [e \in Endpoints |-> Absent]
    /\ nextSweepAt = StartNow + MonitoringPeriodMs
    /\ cbLast = NoCall
    /\ recorded = [e \in Endpoints |-> 0]
    /\ trial = [e \in Endpoints |-> FALSE]
    /\ failAt = [e \in Endpoints |-> -1]
    /\ hoFailAt = [e \in Endpoints |-> -1]

Tick ==
    /\ now + TickMs <= budget.maxNow
    /\ now' = now + TickMs
    /\ UNCHANGED <<sVars, fVars, budget, pVars, xVars, cbVars, qVars>>

CanExecute(e) ==
    /\ endpoints' = canExecuteEffect(endpoints, e, now)
    /\ CBHistory("canExecute", e, canExecuteReturn(endpoints, e, now), endpoints')
    /\ UNCHANGED <<sVars, fVars, budget, pVars, xVars, now, nextSweepAt, qVars>>

RecordSuccess(e) ==
    /\ getEndpointStats(endpoints, e).successes < MaxSuccesses
    /\ endpoints' = recordSuccess(endpoints, e, now)
    /\ CBHistory("recordSuccess", e, TRUE, endpoints')
    /\ UNCHANGED <<sVars, fVars, budget, pVars, xVars, now, nextSweepAt, qVars>>

RecordFailure(e) ==
    /\ getEndpointStats(endpoints, e).failures < MaxFailures
    /\ endpoints' = recordFailure(endpoints, e, now)
    /\ CBHistory("recordFailure", e, TRUE, endpoints')
    /\ UNCHANGED <<sVars, fVars, budget, pVars, xVars, now, nextSweepAt, qVars>>

\* setInterval(() => this.cleanupOldStats(), monitoringPeriodMs)
CleanupOldStats ==
    /\ now >= nextSweepAt
    /\ endpoints' = cleanupOldStats(endpoints, now)
    /\ nextSweepAt' = nextSweepAt + MonitoringPeriodMs
    /\ cbLast' = [op |-> "cleanupOldStats", endpoint |-> "none", before |-> "none", ret |-> TRUE]
    /\ recorded' = [x \in DOMAIN endpoints |->
                       IF FailuresOf(endpoints', x) = 0 /\ FailuresOf(endpoints, x) # 0
                       THEN 0 ELSE recorded[x]]
    /\ UNCHANGED <<sVars, fVars, budget, pVars, xVars, now, trial, failAt, hoFailAt, qVars>>

Reset(e) ==
    /\ endpoints' = resetEndpoint(endpoints, e)
    /\ CBHistory("reset", e, TRUE, endpoints')
    /\ UNCHANGED <<sVars, fVars, budget, pVars, xVars, now, nextSweepAt, qVars>>

ResetAll ==
    /\ endpoints' = resetAll(endpoints)
    /\ cbLast' = [op |-> "resetAll", endpoint |-> "none", before |-> "none", ret |-> TRUE]
    /\ recorded' = [x \in DOMAIN endpoints |-> 0]
    /\ trial' = [x \in DOMAIN endpoints |-> FALSE]
    /\ failAt' = [x \in DOMAIN endpoints |-> -1]
    /\ hoFailAt' = [x \in DOMAIN endpoints |-> -1]
    /\ UNCHANGED <<sVars, fVars, budget, pVars, xVars, now, nextSweepAt, qVars>>

NextCB ==
    \/ Tick
    \/ \E e \in Endpoints : CanExecute(e)
    \/ \E e \in Endpoints : RecordSuccess(e)
    \/ \E e \in Endpoints : RecordFailure(e)
    \/ CleanupOldStats
    \/ \E e \in Endpoints : Reset(e)
    \/ ResetAll

SpecCB == InitCB /\ [][NextCB]_vars

\* ---------------------------------------------------------------- C4
\* C4: once failureThreshold failures have been recorded for an endpoint since
\* its count was last zero (no reset in between), canExecute(endpoint) returns
\* false as long as less than recoveryTimeMs has elapsed since the most
\* recently recorded failure.
C4_OpenUntilRecovery ==
    \A e \in DOMAIN endpoints :
        (recorded[e] >= FailureThreshold /\ failAt[e] >= 0 /\
         now - failAt[e] < RecoveryTimeMs)
            => ~canExecuteReturn(endpoints, e, now)

\* canExecute was called on an endpoint with failureThreshold recorded failures,
\* before the recovery time had elapsed, and returned false
C4_Witness ==
    \E e \in DOMAIN endpoints :
        /\ recorded[e] = FailureThreshold
        /\ now - failAt[e] < RecoveryTimeMs /\ now > failAt[e]
        /\ cbLast = [op |-> "canExecute", endpoint |-> e, before |-> "open", ret |-> FALSE]

\* ---------------------------------------------------------------- C5
\* C5: after recoveryTimeMs has elapsed on an open circuit the first
\* canExecute(endpoint) returns true and moves the endpoint to half-open, and
\* every further canExecute(endpoint) made before a success or failure is
\* recorded for that trial returns false.
C5_SingleTrial ==
    \A e \in DOMAIN endpoints :
        /\ (cbLast.op = "canExecute" /\ cbLast.endpoint = e /\ cbLast.before = "open" /\
            now - getEndpointStats(endpoints, e).lastFailureTime >= RecoveryTimeMs)
                => (cbLast.ret = TRUE /\ StateOf(endpoints, e) = "half-open")
        /\ trial[e] => ~canExecuteReturn(endpoints, e, now)

\* ---------------------------------------------------------------- C6
\* C6: recordSuccess(endpoint) on a half-open endpoint moves it to closed with
\* failure count 0, so canExecute returns true afterwards; and an endpoint is
\* open or half-open only when failureThreshold failures have been recorded
\* since its count was last zero.
C6_HalfOpenSuccessCloses ==
    \A e \in DOMAIN endpoints :
        /\ (cbLast.op = "recordSuccess" /\ cbLast.endpoint = e /\ cbLast.before = "half-open")
                => /\ StateOf(endpoints, e) = "closed"
                   /\ FailuresOf(endpoints, e) = 0
                   /\ canExecuteReturn(endpoints, e, now)
        /\ StateOf(endpoints, e) \in {"open", "half-open"}
                => recorded[e] >= FailureThreshold

\* a success was just recorded on a half-open endpoint
C6_Witness ==
    \E e \in DOMAIN endpoints :
        /\ cbLast.op = "recordSuccess" /\ cbLast.endpoint = e /\ cbLast.before = "half-open"
        /\ StateOf(endpoints, e) = "closed"

\* ---------------------------------------------------------------- C7
\* C7: recordFailure(endpoint) on a half-open endpoint moves it back to open
\* and restarts the recovery timer: until recoveryTimeMs has elapsed since that
\* failure (and unless reset() is called), the endpoint is open and canExecute
\* returns false.
C7_HalfOpenFailureReopens ==
    \A e \in DOMAIN endpoints :
        /\ (cbLast.op = "recordFailure" /\ cbLast.endpoint = e /\ cbLast.before = "half-open")
                => /\ StateOf(endpoints, e) = "open"
                   /\ getEndpointStats(endpoints, e).lastFailureTime = hoFailAt[e]
        /\ (hoFailAt[e] >= 0 /\ now - hoFailAt[e] < RecoveryTimeMs)
                => /\ StateOf(endpoints, e) = "open"
                   /\ ~canExecuteReturn(endpoints, e, now)

\* canExecute was refused after a half-open failure, the clock having advanced
\* since that failure but by less than the recovery time
C7_Witness ==
    \E e \in DOMAIN endpoints :
        /\ hoFailAt[e] >= 0 /\ now > hoFailAt[e] /\ now - hoFailAt[e] < RecoveryTimeMs
        /\ cbLast = [op |-> "canExecute", endpoint |-> e, before |-> "open", ret |-> FALSE]

\* =========================================================== RequestQueue
\* ------------------------------------------------------------ text
Upper == <<"A","B","C","D","E","F","G","H","I","J","K","L","M","N","O","P","Q","R","S","T","U","V","W","X","Y","Z">>
Lower == <<"a","b","c","d","e","f","g","h","i","j","k","l","m","n","o","p","q","r","s","t","u","v","w","x","y","z">>

\* String.prototype.toLowerCase, on a sequence of characters
toLowerCase(str) ==
    [i \in 1..Len(str) |->
        IF \E k \in 1..Len(Upper) : Upper[k] = str[i]
        THEN Lower[CHOOSE k \in 1..Len(Upper) : Upper[k] = str[i]]
        ELSE str[i]]

\* String.prototype.includes
includes(str, pat) ==
    \E i \in 0..(Len(str) - Len(pat)) : SubSeq(str, i + 1, i + Len(pat)) = pat

\* the Error messages an attempt can end with
ErrorMessage ==
    [circuit |-> <<"C", "i", "r", "c", "u", "i", "t", " ", "b", "r", "e", "a", "k", "e", "r", " ", "i", "s", " ", "o", "p", "e", "n", " ", "f", "o", "r", " ", "t", "h", "i", "s", " ", "e", "n", "d", "p", "o", "i", "n", "t">>,
     http500 |-> <<"H", "T", "T", "P", " ", "5", "0", "0", ":", " ", "I", "n", "t", "e", "r", "n", "a", "l", " ", "S", "e", "r", "v", "e", "r", " ", "E", "r", "r", "o", "r">>,
     http404 |-> <<"H", "T", "T", "P", " ", "4", "0", "4", ":", " ", "N", "o", "t", " ", "F", "o", "u", "n", "d">>,
     http429 |-> <<"H", "T", "T", "P", " ", "4", "2", "9", ":", " ", "T", "o", "o", " ", "M", "a", "n", "y", " ", "R", "e", "q", "u", "e", "s", "t", "s">>,
     http408 |-> <<"H", "T", "T", "P", " ", "4", "0", "8", ":", " ", "R", "e", "q", "u", "e", "s", "t", " ", "T", "i", "m", "e", "o", "u", "t">>,
     fetch |-> <<"F", "a", "i", "l", "e", "d", " ", "t", "o", " ", "f", "e", "t", "c", "h">>,
     aborted |-> <<"s", "i", "g", "n", "a", "l", " ", "t", "i", "m", "e", "d", " ", "o", "u", "t">>,
     queueTimeout |-> <<"R", "e", "q", "u", "e", "s", "t", " ", "t", "i", "m", "e", "o", "u", "t", " ", "i", "n", " ", "q", "u", "e", "u", "e">>,
     cors |-> <<"C", "r", "o", "s", "s", "-", "O", "r", "i", "g", "i", "n", " ", "R", "e", "q", "u", "e", "s", "t", " ", "B", "l", "o", "c", "k", "e", "d">>,
     notFunction |-> <<"r", "e", "q", "u", "e", "s", "t", "Q", "u", "e", "u", "e", ".", "a", "d", "d", "R", "e", "q", "u", "e", "s", "t", " ", "i", "s", " ", "n", "o", "t", " ", "a", " ", "f", "u", "n", "c", "t", "i", "o", "n">>,
     cleared |-> <<"Q", "u", "e", "u", "e", " ", "c", "l", "e", "a", "r", "e", "d">>]

\* what fetch / response.ok / response.json can throw
FetchErrors == {"http500", "http404"}

\* shouldRetry(error)
shouldRetry(error) ==
    LET message == toLowerCase(ErrorMessage[error])
    IN  IF \/ includes(message, <<"c", "o", "r", "s">>)
           \/ includes(message, <<"c", "r", "o", "s", "s", "-", "o", "r", "i", "g", "i", "n">>)
           \/ includes(message, <<"h", "t", "t", "p", " ", "4">>)
           \/ includes(message, <<"f", "o", "r", "b", "i", "d", "d", "e", "n">>)
        THEN FALSE
        ELSE \/ includes(message, <<"n", "e", "t", "w", "o", "r", "k">>)
             \/ includes(message, <<"t", "i", "m", "e", "o", "u", "t">>)
             \/ includes(message, <<"f", "e", "t", "c", "h">>)
             \/ includes(message, <<"h", "t", "t", "p", " ", "5">>)
             \/ includes(message, <<"h", "t", "t", "p", " ", "4", "2", "9">>)

\* this.shouldRetry(error), for each error
shouldRetryOf == [error \in DOMAIN ErrorMessage |-> shouldRetry(error)]

Urls == {"e1"}
Priorities == {"low", "normal", "high"}

priorityOrder == [high |-> 3, normal |-> 2, low |-> 1]

\* Math.pow(2, n) for n >= 0
RECURSIVE Pow2(_)
Pow2(n) == IF n <= 0 THEN 1 ELSE 2 * Pow2(n - 1)
Min(a, b) == IF a <= b THEN a ELSE b

\* findInsertIndex, on an always-append queue
findInsertIndex_append(q, rq, priority) == Len(q)

\* findInsertIndex: the 0-based index of the first queued request of lower priority
findInsertIndex(q, rq, priority) ==
    LET requestPriority == priorityOrder[priority]
        lower == {i \in 1..Len(q) : priorityOrder[rq[q[i]].priority] < requestPriority}
    IN  IF lower = {} THEN Len(q)
        ELSE (CHOOSE i \in lower : \A j \in lower : i <= j) - 1

\* queue.splice(index, 0, request)
InsertAt(q, index, x) == SubSeq(q, 1, index) \o <<x>> \o SubSeq(q, index + 1, Len(q))

\* the RequestQueue (and its breaker) as one value, for the synchronous code paths
QState ==
    [queue |-> queue, req |-> req, active |-> activeRequests, last |-> lastRequestTime,
     processing |-> processing, held |-> held, wakeAt |-> wakeAt, eps |-> endpoints,
     log |-> dispatchLog]

FirstDispatch(S, r) ==
    IF \E i \in 1..Len(S.log) : S.log[i][1] = r THEN S.log
    ELSE Append(S.log, <<r, Len(S.req)>>)

\* request.reject(error)
Reject(S, r, error) ==
    [S EXCEPT !.req[r].st = "rejected", !.req[r].err = error, !.req[r].settled = @ + 1]

\* executeRequest's catch and finally blocks without the retryCount test
catchAndFinally_noBudget(S, r, error, t, random) ==
    LET S1 == [S EXCEPT !.eps = recordFailure(S.eps, S.req[r].url, t),
                        !.req[r].lastErr = error]
        S2 == IF shouldRetryOf[error]
              THEN LET n == S1.req[r].retryCount + 1
                       delay == Min(BaseDelayMs * Pow2(n - 1), MaxDelayMs)
                       jitter == (random * delay) \div 10000
                       totalDelay == delay + jitter
                   IN  [S1 EXCEPT !.req[r].retryCount = n,
                                  !.req[r].st = "backoff",
                                  !.req[r].due = t + totalDelay,
                                  !.req[r].delays = Append(@, totalDelay)]
              ELSE Reject(S1, r, error)
    IN  [S2 EXCEPT !.active = @ - 1]

\* executeRequest's catch block without the activeRequests-- of its finally block
catchAndFinally_noRelease(S, r, error, t, random) ==
    LET S1 == [S EXCEPT !.eps = recordFailure(S.eps, S.req[r].url, t),
                        !.req[r].lastErr = error]
    IN  IF S1.req[r].retryCount < budget.maxRetries /\ shouldRetryOf[error]
        THEN LET n == S1.req[r].retryCount + 1
                 delay == Min(BaseDelayMs * Pow2(n - 1), MaxDelayMs)
                 jitter == (random * delay) \div 10000
                 totalDelay == delay + jitter
             IN  [S1 EXCEPT !.req[r].retryCount = n,
                            !.req[r].st = "backoff",
                            !.req[r].due = t + totalDelay,
                            !.req[r].delays = Append(@, totalDelay)]
        ELSE Reject(S1, r, error)

\* executeRequest, catch and finally blocks: an attempt of r ended with `error` at time t
\* (random: Math.random(), in thousandths)
catchAndFinally(S, r, error, t, random) ==
    LET S1 == [S EXCEPT !.eps = recordFailure(S.eps, S.req[r].url, t),
                        !.req[r].lastErr = error]
        S2 == IF S1.req[r].retryCount < budget.maxRetries /\ shouldRetryOf[error]
              THEN LET n == S1.req[r].retryCount + 1
                       delay == Min(BaseDelayMs * Pow2(n - 1), MaxDelayMs)
                       jitter == (random * delay) \div 10000
                       totalDelay == delay + jitter
                   IN  [S1 EXCEPT !.req[r].retryCount = n,
                                  !.req[r].st = "backoff",
                                  !.req[r].due = t + totalDelay,
                                  !.req[r].delays = Append(@, totalDelay)]
              ELSE Reject(S1, r, error)
    IN  [S2 EXCEPT !.active = @ - 1]

\* executeRequest up to `await fetch(..)`
executeRequest_keepsLast(S, r, t) ==
    LET S1 == [S EXCEPT !.active = @ + 1, !.log = FirstDispatch(S, r),
                        !.req[r].dispatches = @ + 1]
        url == S.req[r].url
    IN  IF ~canExecuteReturn(S1.eps, url, t)
        THEN catchAndFinally([S1 EXCEPT !.eps = canExecuteEffect(S1.eps, url, t)],
                             r, "circuit", t, 0)
        ELSE [S1 EXCEPT !.eps = canExecuteEffect(S1.eps, url, t),
                        !.req[r].st = "inflight",
                        !.req[r].attempts = @ + 1,
                        !.req[r].late = (@ \/ (S.req[r].attempts = 0 /\
                                              t - S.req[r].createdAt > budget.timeoutMs))]

executeRequest(S, r, t) ==
    LET S1 == [S EXCEPT !.active = @ + 1, !.last = t, !.log = FirstDispatch(S, r),
                        !.req[r].dispatches = @ + 1]
        url == S.req[r].url
    IN  IF ~canExecuteReturn(S1.eps, url, t)
        THEN catchAndFinally([S1 EXCEPT !.eps = canExecuteEffect(S1.eps, url, t)],
                             r, "circuit", t, 0)
        ELSE [S1 EXCEPT !.eps = canExecuteEffect(S1.eps, url, t),
                        !.req[r].st = "inflight",
                        !.req[r].attempts = @ + 1,
                        !.req[r].late = (@ \/ (S.req[r].attempts = 0 /\
                                              t - S.req[r].createdAt > budget.timeoutMs))]

\* the while condition of processQueue, without the concurrency limit
LoopCond_noLimit(S) == Len(S.queue) > 0

\* the while condition of processQueue
LoopCond(S) == Len(S.queue) > 0 /\ S.active < MaxConcurrentRequests

\* processQueue's loop from its while condition, at time t, up to the first
\* `await this.delay(..)` or the end of the loop
RECURSIVE RunLoop(_, _)
RunLoop(S, t) ==
    IF LoopCond(S)
    THEN LET r == Head(S.queue)
             S1 == [S EXCEPT !.queue = Tail(S.queue)]
             timeSinceLastRequest == t - S1.last
         IN  IF t - S1.req[r].createdAt > budget.timeoutMs
             THEN RunLoop(Reject(S1, r, "queueTimeout"), t)
             ELSE IF timeSinceLastRequest < requestIntervalMs
             THEN [S1 EXCEPT !.held = r, !.req[r].st = "held",
                             !.wakeAt = t + (requestIntervalMs - timeSinceLastRequest)]
             ELSE RunLoop(executeRequest(S1, r, t), t)
    ELSE [S EXCEPT !.processing = FALSE]

\* processQueue()
processQueue(S, t) ==
    IF S.processing \/ Len(S.queue) = 0 THEN S
    ELSE RunLoop([S EXCEPT !.processing = TRUE], t)

\* the state after a synchronous code path that ends in S
Becomes(S) ==
    /\ queue' = S.queue
    /\ req' = S.req
    /\ activeRequests' = S.active
    /\ lastRequestTime' = S.last
    /\ processing' = S.processing
    /\ held' = S.held
    /\ wakeAt' = S.wakeAt
    /\ endpoints' = S.eps
    /\ dispatchLog' = S.log

\* ------------------------------------------------------------ operations
InitQueue ==
    /\ now = StartNow
    /\ endpoints = [u \in Urls |-> Absent]
    /\ nextSweepAt = StartNow + MonitoringPeriodMs
    /\ cbLast = NoCall
    /\ recorded = [u \in Urls |-> 0]
    /\ trial = [u \in Urls |-> FALSE]
    /\ failAt = [u \in Urls |-> -1]
    /\ hoFailAt = [u \in Urls |-> -1]
    /\ InitQueueIdle

\* enqueue(url, options, priority)
enqueue(url, priority) ==
    /\ nextId <= budget.maxReq
    /\ LET id == nextId
           request == [url |-> url, priority |-> priority, retryCount |-> 0,
                       createdAt |-> now, st |-> "queued", due |-> 0, err |-> "none",
                       attempts |-> 0, delays |-> <<>>, late |-> FALSE,
                       lastErr |-> "none", dispatches |-> 0, settled |-> 0,
     stAtClear |-> "none", attemptsAtClear |-> 0]
           rq == Append(req, request)
           insertIndex == findInsertIndex(queue, rq, priority)
           S == [QState EXCEPT !.req = rq, !.queue = InsertAt(queue, insertIndex, id)]
       IN  /\ Becomes(processQueue(S, now))
           /\ nextId' = nextId + 1
    /\ UNCHANGED <<sVars, fan, budget, pVars, xVars, now, nextSweepAt, cbHistory, requestIntervalMs>>

\* enqueue called by a caller the model does not follow
Enqueue(url, priority) ==
    /\ enqueue(url, priority)
    /\ UNCHANGED <<requests, cache>>

\* the delay processQueue awaits is over: it dispatches the request it holds
\* and goes on with its loop
ResumeAfterDelay ==
    /\ held # 0
    /\ now >= wakeAt
    /\ Becomes(RunLoop(executeRequest([QState EXCEPT !.held = 0, !.wakeAt = 0], held, now), now))
    /\ UNCHANGED <<sVars, fVars, budget, pVars, xVars, now, nextId, nextSweepAt, cbHistory, requestIntervalMs>>

\* fetch resolved with an ok response and response.json() parsed
FetchSucceeds(r) ==
    /\ req[r].st = "inflight"
    /\ LET S1 == [QState EXCEPT !.eps = recordSuccess(endpoints, req[r].url, now),
                                !.req[r].st = "resolved",
                                !.req[r].settled = @ + 1]
       IN  Becomes([S1 EXCEPT !.active = @ - 1])
    /\ UNCHANGED <<sVars, fVars, budget, pVars, xVars, now, nextId, nextSweepAt, cbHistory, requestIntervalMs>>

\* fetch rejected, the response was not ok, or response.json() threw
FetchFails(r, error) ==
    /\ req[r].st = "inflight"
    /\ getEndpointStats(endpoints, req[r].url).failures < MaxFailures
    /\ \E random \in budget.randoms : Becomes(catchAndFinally(QState, r, error, now, random))
    /\ UNCHANGED <<sVars, fVars, budget, pVars, xVars, now, nextId, nextSweepAt, cbHistory, requestIntervalMs>>

\* the retry timer of r fires: queue.unshift(request); processQueue()
RetryTimer(r) ==
    /\ req[r].st = "backoff"
    /\ now >= req[r].due
    /\ Becomes(processQueue([QState EXCEPT !.queue = <<r>> \o queue,
                                           !.req[r].st = "queued",
                                           !.req[r].due = 0], now))
    /\ UNCHANGED <<sVars, fVars, budget, pVars, xVars, now, nextId, nextSweepAt, cbHistory, requestIntervalMs>>

\* setInterval(.., 100) of startProcessing, and setTimeout(processQueue, 10) of
\* executeRequest's finally block
ProcessTimer ==
    /\ Len(queue) > 0
    /\ ~processing
    /\ Becomes(processQueue(QState, now))
    /\ UNCHANGED <<sVars, fVars, budget, pVars, xVars, now, nextId, nextSweepAt, cbHistory, requestIntervalMs>>

\* the requests after clearQueue(): those of this.queue.splice(0) are rejected;
\* each request not yet settled keeps, as history, the state and the number of
\* attempts it had when clearQueue was called
clearQueue(rq, q) ==
    [r \in 1..Len(rq) |->
        LET h == IF rq[r].st \in {"resolved", "rejected"} THEN rq[r]
                 ELSE [rq[r] EXCEPT !.stAtClear = rq[r].st,
                                    !.attemptsAtClear = rq[r].attempts]
        IN  IF \E i \in 1..Len(q) : q[i] = r
            THEN [h EXCEPT !.st = "rejected", !.err = "cleared", !.settled = @ + 1]
            ELSE h]

\* clearQueue() rejecting the waiting requests without taking them off the queue
ClearQueue_keepsQueue ==
    /\ Len(queue) > 0
    /\ req' = clearQueue(req, queue)
    /\ UNCHANGED <<sVars, fVars, budget, pVars, xVars, now, cbVars, nextId, activeRequests, lastRequestTime, processing, held,
                   wakeAt, dispatchLog, requestIntervalMs, queue>>

\* clearQueue()
ClearQueue ==
    /\ Len(queue) > 0
    /\ req' = clearQueue(req, queue)
    /\ queue' = <<>>
    /\ UNCHANGED <<sVars, fVars, budget, pVars, xVars, now, cbVars, nextId, activeRequests, lastRequestTime, processing, held,
                   wakeAt, dispatchLog, requestIntervalMs>>

Next ==
    \/ Tick
    \/ \E u \in Urls, p \in budget.priorities : Enqueue(u, p)
    \/ ResumeAfterDelay
    \/ \E r \in 1..Len(req) : FetchSucceeds(r)
    \/ \E r \in 1..Len(req), error \in budget.errors : FetchFails(r, error)
    \/ \E r \in 1..Len(req) : RetryTimer(r)
    \/ ProcessTimer
    \/ ClearQueue

Init ==
    /\ budget = [maxReq |-> MaxReq, maxNow |-> QMaxNow, intervals |-> {RequestIntervalMs},
                 priorities |-> Priorities, errors |-> FetchErrors, randoms |-> {0},
                 maxRetries |-> MaxRetries, timeoutMs |-> TimeoutMs]
    /\ InitQueue
    /\ InitSearchIdle

Spec == Init /\ [][Next]_vars

\* more requests, of two tiers, whose attempts succeed or fail with HTTP 500, on
\* a queue constructed with or without rate limiting (maxRequestsPerSecond:
\* Infinity gives requestIntervalMs = 0), and no clearQueue
InitWide ==
    /\ budget = [maxReq |-> WideMaxReq, maxNow |-> WideMaxNow,
                 intervals |-> {0, RequestIntervalMs},
                 priorities |-> {"low", "high"}, errors |-> {"http500"}, randoms |-> {0},
                 maxRetries |-> MaxRetries, timeoutMs |-> TimeoutMs]
    /\ InitQueue
    /\ InitSearchIdle

NextWide ==
    \/ Tick
    \/ \E u \in Urls, p \in budget.priorities : Enqueue(u, p)
    \/ ResumeAfterDelay
    \/ \E r \in 1..Len(req) : FetchSucceeds(r)
    \/ \E r \in 1..Len(req), error \in budget.errors : FetchFails(r, error)
    \/ \E r \in 1..Len(req) : RetryTimer(r)
    \/ ProcessTimer

SpecWide == InitWide /\ [][NextWide]_vars

\* ---------------------------------------------------------------- C1
InFlight == {r \in 1..Len(req) : req[r].st = "inflight"}

\* C1: in every reachable state the number of requests whose network call is
\* in flight equals activeRequests and lies between 0 and maxConcurrentRequests.
C1_ActiveWithinLimit ==
    /\ activeRequests = Cardinality(InFlight)
    /\ activeRequests >= 0
    /\ activeRequests <= MaxConcurrentRequests

\* the limit is reached while another request waits in the queue
C1_Witness ==
    /\ activeRequests = MaxConcurrentRequests
    /\ Len(queue) > 0

\* ---------------------------------------------------------------- C2
\* C2: when a lower-priority (normal or low) request l is dispatched for the
\* first time, every high-priority request enqueued after l and before that
\* dispatch has already been dispatched.
C2_TierPreemption ==
    \A i \in 1..Len(dispatchLog) :
        LET l == dispatchLog[i][1]
            enqueued == dispatchLog[i][2]
        IN  \A h \in (l + 1)..enqueued :
                (req[h].priority = "high" /\ priorityOrder[req[l].priority] < priorityOrder["high"])
                    => \E j \in 1..(i - 1) : dispatchLog[j][1] = h

\* ---------------------------------------------------------------- C3
\* C3: any two requests of the same priority tier are dispatched for the first
\* time in the order in which they were enqueued (ids are given in enqueue order).
C3_FifoWithinTier ==
    \A i, j \in 1..Len(dispatchLog) :
        (i < j /\ req[dispatchLog[i][1]].priority = req[dispatchLog[j][1]].priority)
            => dispatchLog[i][1] < dispatchLog[j][1]

\* ============================================================== SearchAPI
\* Strings are sequences of characters, as in the RequestQueue section.
Str_http == <<"h","t","t","p">>
Str_wikipedia == <<"w","i","k","i","p","e","d","i","a">>
Str_unknown == <<"u","n","k","n","o","w","n">>
Str_schemeSep == <<":","/","/">>
DiverseSources == {<<"d","u","c","k","d","u","c","k","g","o">>, <<"b","r","a","v","e">>, <<"s","t","a","r","t","p","a","g","e">>}

\* String.prototype.startsWith
startsWith(str, pat) == Len(str) >= Len(pat) /\ SubSeq(str, 1, Len(pat)) = pat

\* new URL(url).hostname for an absolute URL scheme://host/path (lower-cased by
\* the URL parser); any other string makes the constructor throw
IsAbsoluteUrl(url) ==
    \E i \in 1..(Len(url) - Len(Str_schemeSep)) :
        SubSeq(url, i + 1, i + Len(Str_schemeSep)) = Str_schemeSep

hostname(url) ==
    LET i == CHOOSE k \in 1..(Len(url) - Len(Str_schemeSep)) :
                 /\ SubSeq(url, k + 1, k + Len(Str_schemeSep)) = Str_schemeSep
                 /\ \A m \in 1..(k - 1) :
                        SubSeq(url, m + 1, m + Len(Str_schemeSep)) # Str_schemeSep
        first == i + Len(Str_schemeSep) + 1
        stops == {k \in first..Len(url) : url[k] = "/"}
        last == IF stops = {} THEN Len(url)
                ELSE (CHOOSE k \in stops : \A m \in stops : k <= m) - 1
    IN toLowerCase(SubSeq(url, first, last))

\* the `domain` of a transformed result
extractDomain(url) ==
    IF startsWith(url, Str_http) /\ IsAbsoluteUrl(url) THEN hostname(url) ELSE Str_unknown

\* one element of transformedResults, from the raw result at `index`
transformResult(raw, index) ==
    [url |-> raw.url,
     domain |-> extractDomain(raw.url),
     relevance |-> raw.score,
     source |-> toLowerCase(raw.source),
     originalIndex |-> index]

\* Array.prototype.filter
RECURSIVE SelectKept(_)
SelectKept(arr) ==
    IF arr = <<>> THEN <<>>
    ELSE IF startsWith(Head(arr).url, Str_http)
         THEN <<Head(arr)>> \o SelectKept(Tail(arr))
         ELSE SelectKept(Tail(arr))

\* allResults.map(..).filter(..)
transformResults(allResults) ==
    SelectKept([i \in 1..Len(allResults) |-> transformResult(allResults[i], i - 1)])

\* ---------------------------------------------- deduplicateAndImproveResults
isWiki(r) == includes(r.domain, Str_wikipedia) \/ includes(r.url, Str_wikipedia)
isDiverse(r) == r.source \in DiverseSources

\* the comparator handed to results.sort
compareResults_noRelevance(a, b) ==
    IF isWiki(a) /\ ~isWiki(b) THEN 1
    ELSE IF ~isWiki(a) /\ isWiki(b) THEN -1
    ELSE IF isDiverse(a) /\ ~isDiverse(b) THEN -1
    ELSE IF ~isDiverse(a) /\ isDiverse(b) THEN 1
    ELSE 0

compareResults(a, b) ==
    IF isWiki(a) /\ ~isWiki(b) THEN 1
    ELSE IF ~isWiki(a) /\ isWiki(b) THEN -1
    ELSE IF isDiverse(a) /\ ~isDiverse(b) THEN -1
    ELSE IF ~isDiverse(a) /\ isDiverse(b) THEN 1
    ELSE b.relevance - a.relevance

\* Array.prototype.sort (stable): x goes before the first element that sorts after it
InsertSorted(sorted, x) ==
    LET after == {k \in 1..Len(sorted) : compareResults(sorted[k], x) > 0}
        at == IF after = {} THEN Len(sorted) + 1
              ELSE CHOOSE k \in after : \A m \in after : k <= m
    IN SubSeq(sorted, 1, at - 1) \o <<x>> \o SubSeq(sorted, at, Len(sorted))

RECURSIVE sortResults(_)
sortResults(arr) ==
    IF arr = <<>> THEN <<>>
    ELSE InsertSorted(sortResults(SubSeq(arr, 1, Len(arr) - 1)), arr[Len(arr)])

\* seenUrls.has(result.url)
isDuplicate_never(seenUrls, url) == FALSE

isDuplicate(seenUrls, url) == url \in seenUrls

\* result.domain?.includes('wikipedia') ? 2 : 3
maxPerDomain_offByOne(domain) == IF includes(domain, Str_wikipedia) THEN 3 ELSE 4

maxPerDomain(domain) == IF includes(domain, Str_wikipedia) THEN 2 ELSE 3

\* seenDomains.get(domain) || 0
domainCountOf(seenDomains, domain) ==
    IF domain \in DOMAIN seenDomains THEN seenDomains[domain] ELSE 0

\* Map.prototype.set
MapSet(map, key, value) ==
    [k \in (DOMAIN map) \cup {key} |-> IF k = key THEN value ELSE map[k]]

\* the for .. of loop over sortedResults, from element i on
RECURSIVE dedupLoop(_, _, _, _, _)
dedupLoop(sortedResults, i, seenUrls, seenDomains, out) ==
    IF i > Len(sortedResults) THEN out
    ELSE LET result == sortedResults[i]
             domainCount == domainCountOf(seenDomains, result.domain)
         IN IF isDuplicate(seenUrls, result.url)
            THEN dedupLoop(sortedResults, i + 1, seenUrls, seenDomains, out)
            ELSE IF domainCount >= maxPerDomain(result.domain)
            THEN dedupLoop(sortedResults, i + 1, seenUrls, seenDomains, out)
            ELSE dedupLoop(sortedResults, i + 1, seenUrls \cup {result.url},
                           MapSet(seenDomains, result.domain, domainCount + 1),
                           Append(out, result))

deduplicateAndImproveResults(arr) == dedupLoop(sortResults(arr), 1, {}, <<>>, <<>>)

\* --------------------------------------- deduplication of any result list
DedupMaxLen == 4

\* raw results the search sources can return: { url, score, _source }
RawResults ==
    {[url |-> <<"h","t","t","p",":","/","/","a",".","i","o","/","1">>,
     score |-> 5, source |-> <<"M","W","M","B","L">>],
     [url |-> <<"h","t","t","p",":","/","/","a",".","i","o","/","2">>,
     score |-> 4, source |-> <<"M","W","M","B","L">>],
     [url |-> <<"h","t","t","p",":","/","/","a",".","i","o","/","3">>,
     score |-> 3, source |-> <<"M","W","M","B","L">>],
     [url |-> <<"h","t","t","p",":","/","/","A",".","i","o","/","4">>,
     score |-> 2, source |-> <<"M","W","M","B","L">>],
     [url |-> <<"h","t","t","p",":","/","/","a",".","i","o","/","1">>,
     score |-> 1, source |-> <<"M","W","M","B","L">>],
     [url |-> <<"h","t","t","p","s",":","/","/","e","n",".","w","i","k","i","p","e","d","i","a",".","o","r","g","/","1">>,
     score |-> 6, source |-> <<"M","W","M","B","L">>],
     [url |-> <<"h","t","t","p","s",":","/","/","e","n",".","w","i","k","i","p","e","d","i","a",".","o","r","g","/","2">>,
     score |-> 5, source |-> <<"M","W","M","B","L">>],
     [url |-> <<"h","t","t","p","s",":","/","/","e","n",".","w","i","k","i","p","e","d","i","a",".","o","r","g","/","3">>,
     score |-> 4, source |-> <<"M","W","M","B","L">>],
     [url |-> <<"h","t","t","p",":","/","/","b",".","i","o","/","w","i","k","i","p","e","d","i","a">>,
     score |-> 9, source |-> <<"D","u","c","k","D","u","c","k","G","o">>]}

RawLists == UNION {[1..n -> RawResults] : n \in 0..DedupMaxLen}

InitDedup ==
    /\ budget = [maxReq |-> 0, maxNow |-> StartNow, intervals |-> {RequestIntervalMs},
                 priorities |-> {}, errors |-> {}, randoms |-> {0},
                 maxRetries |-> MaxRetries, timeoutMs |-> TimeoutMs]
    /\ InitQueue
    /\ fan = NoFanout
    /\ InitClientIdle
    /\ results \in {transformResults(l) : l \in RawLists}
    /\ deduplicated = <<>>
    /\ dedupCalled = FALSE
    /\ resultsCache = <<>>
    /\ calls = {}
    /\ nCalls = 0
    /\ lastCall = NoSearch

\* deduplicateAndImproveResults(results); results.sort(..) sorts the argument in place
Deduplicate ==
    /\ ~dedupCalled
    /\ dedupCalled' = TRUE
    /\ results' = sortResults(results)
    /\ deduplicated' = deduplicateAndImproveResults(results)
    /\ UNCHANGED <<fVars, budget, pVars, xVars, now, cbVars, qVars, resultsCache, calls, nCalls, lastCall>>

NextDedup == Deduplicate

SpecDedup == InitDedup /\ [][NextDedup]_vars

\* the elements of arr whose key (url or domain) is k
IndicesWith(arr, field, k) == {i \in 1..Len(arr) : arr[i][field] = k}

\* ---------------------------------------------------------------- C8
\* C8: the list deduplicateAndImproveResults returns holds no two results with
\* the same URL, and holds only results of its argument.
C8_NoDuplicateUrl ==
    dedupCalled =>
        /\ \A i, j \in 1..Len(deduplicated) :
               i # j => deduplicated[i].url # deduplicated[j].url
        /\ \A i \in 1..Len(deduplicated) :
               \E j \in 1..Len(results) : results[j] = deduplicated[i]

\* a URL that occurs twice in the argument occurs once in what was returned
C8_Witness ==
    /\ dedupCalled
    /\ \E i, j \in 1..Len(results) :
           /\ i # j
           /\ results[i].url = results[j].url
           /\ results[i].relevance # results[j].relevance
           /\ Cardinality(IndicesWith(deduplicated, "url", results[i].url)) = 1

\* ---------------------------------------------------------------- C9
\* C9: the list deduplicateAndImproveResults returns holds at most 3 results of
\* any one domain, and at most 2 of any one domain containing 'wikipedia'.
C9_DomainCap ==
    dedupCalled =>
        \A i \in 1..Len(deduplicated) :
            LET d == deduplicated[i].domain
            IN Cardinality(IndicesWith(deduplicated, "domain", d))
                   <= (IF includes(d, Str_wikipedia) THEN 2 ELSE 3)

\* four results with four URLs of one ordinary domain went in, three came out
C9_Witness ==
    /\ dedupCalled
    /\ \E i \in 1..Len(results) :
           LET d == results[i].domain
           IN /\ ~includes(d, Str_wikipedia)
              /\ Cardinality({results[j].url : j \in IndicesWith(results, "domain", d)}) >= 4
              /\ Cardinality(IndicesWith(deduplicated, "domain", d)) = 3

\* ------------------------------------------------------------ search()
MaxCalls == 2

Queries == {<<"c","a","t">>, <<" ","C","a","t">>, <<"d","o","g">>, <<" ">>}
Pages == {1, 2}
Limits == {1, 2}

\* what the search sources can answer with (allResults after the source loop)
ResponseA ==
    <<[url |-> <<"h","t","t","p",":","/","/","a",".","i","o","/","1">>, score |-> 5, source |-> <<"M","W","M","B","L">>],
      [url |-> <<"h","t","t","p","s",":","/","/","e","n",".","w","i","k","i","p","e","d","i","a",".","o","r","g","/","1">>, score |-> 6, source |-> <<"M","W","M","B","L">>],
      [url |-> <<"h","t","t","p",":","/","/","a",".","i","o","/","2">>, score |-> 4, source |-> <<"M","W","M","B","L">>],
      [url |-> <<"h","t","t","p",":","/","/","a",".","i","o","/","1">>, score |-> 1, source |-> <<"M","W","M","B","L">>],
      [url |-> <<"h","t","t","p",":","/","/","a",".","i","o","/","3">>, score |-> 3, source |-> <<"M","W","M","B","L">>],
      [url |-> <<"f","t","p",":","/","/","a",".","i","o","/","5">>, score |-> 7, source |-> <<"M","W","M","B","L">>]>>
ResponseB ==
    <<[url |-> <<"h","t","t","p","s",":","/","/","e","n",".","w","i","k","i","p","e","d","i","a",".","o","r","g","/","2">>, score |-> 5, source |-> <<"M","W","M","B","L">>],
      [url |-> <<"h","t","t","p",":","/","/","b",".","i","o","/","w","i","k","i","p","e","d","i","a">>, score |-> 9, source |-> <<"D","u","c","k","D","u","c","k","G","o">>]>>
Responses == {ResponseA, ResponseB, <<>>}

\* this.deduplicateAndImproveResults(transformedResults), for each answer
deduplicatedOf ==
    [allResults \in Responses |-> deduplicateAndImproveResults(transformResults(allResults))]

\* String.prototype.trim
RECURSIVE trim(_)
trim(str) ==
    IF str = <<>> THEN str
    ELSE IF Head(str) = " " THEN trim(Tail(str))
    ELSE IF str[Len(str)] = " " THEN trim(SubSeq(str, 1, Len(str) - 1))
    ELSE str

\* const cacheKey = query.trim().toLowerCase()
cacheKeyOf(query) == toLowerCase(trim(query))

\* Array.prototype.slice(start, end), 0 <= start <= end
slice_inclusive(arr, start, end) == SubSeq(arr, start + 1, Min(end + 1, Len(arr)))

slice(arr, start, end) == SubSeq(arr, start + 1, Min(end, Len(arr)))

\* const startIndex = (page - 1) * limit
startIndexOf_nextPage(page, limit) == page * limit

startIndexOf(page, limit) == (page - 1) * limit

\* the messages search() can put in its response's `error`, or reject with
SearchErrors ==
    [none |-> "none",
     required |-> "Search query is required",
     endpoint |-> "lastError.message",
     allFailed |-> "All search endpoints failed"]

\* the SearchResponse built from the full result list, on either path
paginate(allResults, page, limit) ==
    LET startIndex == startIndexOf(page, limit)
        endIndex == startIndex + limit
    IN [results |-> slice(allResults, startIndex, endIndex),
        totalCount |-> Len(allResults),
        hasMore |-> endIndex < Len(allResults),
        error |-> SearchErrors.none]

\* history: what is kept of the call that returned before the last one
Brief(call) ==
    IF call.kind = "none" THEN call
    ELSE [kind |-> call.kind, no |-> call.no, key |-> call.key, query |-> call.query,
          page |-> call.page, limit |-> call.limit, results |-> call.results,
          cached |-> call.cached, set |-> call.set, hadCache |-> call.hadCache]

ReturnNo == IF lastCall.kind = "none" THEN 0 ELSE lastCall.no

\* history: the call `c` returns `response` (kind "returned") or rejects ("threw")
Returned(c, kind, response, fromCache, cached, set) ==
    [kind |-> kind, no |-> ReturnNo + 1, startedAfter |-> c.startedAfter,
     hadCache |-> c.hadCache, error |-> response.error,
     key |-> cacheKeyOf(c.query), query |-> c.query, page |-> c.page, limit |-> c.limit,
     results |-> response.results, totalCount |-> response.totalCount,
     hasMore |-> response.hasMore, fromCache |-> fromCache, cached |-> cached,
     set |-> set, prev |-> Brief(lastCall)]

\* the catch block's response, for the error caught
catchResponse_hasMore(error) ==
    [results |-> <<>>, totalCount |-> 0, hasMore |-> TRUE, error |-> error]

catchResponse(error) ==
    [results |-> <<>>, totalCount |-> 0, hasMore |-> FALSE, error |-> error]

\* what is recorded of a call that rejected: no response at all
NoResponse(error) == [results |-> <<>>, totalCount |-> -1, hasMore |-> FALSE, error |-> error]

InitSearch ==
    /\ budget = [maxReq |-> 0, maxNow |-> StartNow, intervals |-> {RequestIntervalMs},
                 priorities |-> {}, errors |-> {}, randoms |-> {0},
                 maxRetries |-> MaxRetries, timeoutMs |-> TimeoutMs]
    /\ InitQueue
    /\ InitSearchIdle

\* search({ query, page, limit }) up to its first await, or to its return
SearchStart(query, page, limit) ==
    LET c == [id |-> nCalls + 1, query |-> query, page |-> page, limit |-> limit,
              startedAfter |-> ReturnNo,
              hadCache |-> cacheKeyOf(query) \in DOMAIN resultsCache]
        cacheKey == cacheKeyOf(query)
    IN /\ nCalls < MaxCalls
       /\ nCalls' = nCalls + 1
       /\ IF trim(query) = <<>>
          THEN /\ lastCall' = Returned(c, "threw", NoResponse(SearchErrors.required),
                                       FALSE, FALSE, <<>>)
               /\ UNCHANGED calls
          ELSE IF cacheKey \in DOMAIN resultsCache /\ page > 1
          THEN /\ lastCall' = Returned(c, "returned",
                                       paginate(resultsCache[cacheKey], page, limit),
                                       TRUE, FALSE, <<>>)
               /\ UNCHANGED calls
          ELSE /\ calls' = calls \cup {c}
               /\ UNCHANGED lastCall
       /\ UNCHANGED <<fVars, budget, pVars, xVars, now, cbVars, qVars, results, deduplicated, dedupCalled,
                      resultsCache>>

\* the source loop ends with allResults; the rest of search() runs to its return
SearchResponds(c, allResults) ==
    /\ c \in calls
    /\ calls' = calls \ {c}
    /\ IF Len(allResults) = 0
       THEN /\ lastCall' = Returned(c, "returned", catchResponse(SearchErrors.allFailed),
                                    FALSE, FALSE, <<>>)
            /\ UNCHANGED resultsCache
       ELSE LET deduplicatedResults == deduplicatedOf[allResults]
            IN /\ resultsCache' = MapSet(resultsCache, cacheKeyOf(c.query),
                                         deduplicatedResults)
               /\ lastCall' = Returned(c, "returned",
                                       paginate(deduplicatedResults, c.page, c.limit),
                                       FALSE, TRUE, deduplicatedResults)
    /\ UNCHANGED <<fVars, budget, pVars, xVars, now, cbVars, qVars, results, deduplicated, dedupCalled, nCalls>>

\* every endpoint of every source throws: the catch block returns an empty response
SearchFetchFails(c) ==
    /\ c \in calls
    /\ calls' = calls \ {c}
    /\ lastCall' = Returned(c, "returned", catchResponse(SearchErrors.endpoint),
                             FALSE, FALSE, <<>>)
    /\ UNCHANGED <<fVars, budget, pVars, xVars, now, cbVars, qVars, results, deduplicated, dedupCalled, nCalls,
                   resultsCache>>

NextSearch ==
    \/ \E query \in Queries, page \in Pages, limit \in Limits : SearchStart(query, page, limit)
    \/ \E c \in calls, allResults \in Responses : SearchResponds(c, allResults)
    \/ \E c \in calls : SearchFetchFails(c)

SpecSearch == InitSearch /\ [][NextSearch]_vars

\* ---------------------------------------------------------------- C10
\* the last call asked for page 2 right after a call for page 1 of the same
\* query (same cache key) and limit had returned and cached its result set
PageTwoAfterPageOne ==
    /\ lastCall.kind = "returned"
    /\ lastCall.page = 2
    /\ lastCall.prev.kind = "returned"
    /\ lastCall.prev.page = 1
    /\ lastCall.prev.key = lastCall.key
    /\ lastCall.prev.limit = lastCall.limit
    /\ lastCall.prev.cached
    /\ lastCall.startedAfter = lastCall.prev.no

\* C10: page 1 with limit L and then page 2 of the same query with limit L:
\* page 2 is served from the set the page-1 call cached, the two pages share no
\* result, and page 1 followed by page 2 is the first 2L elements of that set.
C10_Pagination ==
    PageTwoAfterPageOne =>
        LET one == lastCall.prev.results
            two == lastCall.results
            set == lastCall.prev.set
        IN /\ lastCall.fromCache
           /\ one \o two = SubSeq(set, 1, Min(2 * lastCall.limit, Len(set)))
           /\ \A i \in 1..Len(one), j \in 1..Len(two) : one[i].url # two[j].url
           /\ two = SubSeq(set, lastCall.limit + 1, Min(2 * lastCall.limit, Len(set)))

\* both pages are full, and the two calls spelled the query differently
C10_Witness ==
    /\ PageTwoAfterPageOne
    /\ lastCall.query # lastCall.prev.query
    /\ lastCall.limit = 2
    /\ Len(lastCall.prev.results) = 2
    /\ Len(lastCall.results) = 2

\* ---------------------------------------------------------------- C11
\* a session in which an earlier search for "cat" was answered with ResponseA
\* and cached (resultsCache has no expiry and no delete)
InitSearchWarm ==
    /\ budget = [maxReq |-> 0, maxNow |-> StartNow, intervals |-> {RequestIntervalMs},
                 priorities |-> {}, errors |-> {}, randoms |-> {0},
                 maxRetries |-> MaxRetries, timeoutMs |-> TimeoutMs]
    /\ InitQueue
    /\ fan = NoFanout
    /\ InitClientIdle
    /\ results = <<>>
    /\ deduplicated = <<>>
    /\ dedupCalled = FALSE
    /\ resultsCache = MapSet(<<>>, cacheKeyOf(<<"c","a","t">>), deduplicatedOf[ResponseA])
    /\ calls = {}
    /\ nCalls = 0
    /\ lastCall = NoSearch

SpecSearchWarm == InitSearchWarm /\ [][NextSearch]_vars

\* the last two calls, one made after the other had returned, asked for the same
\* query, page and limit, and the cache held a set for the query all along
SameCallTwice ==
    /\ lastCall.kind = "returned"
    /\ lastCall.prev.kind = "returned"
    /\ lastCall.prev.query = lastCall.query
    /\ lastCall.prev.page = lastCall.page
    /\ lastCall.prev.limit = lastCall.limit
    /\ lastCall.prev.hadCache
    /\ lastCall.startedAfter = lastCall.prev.no

\* C11: while a set is cached for the query, two calls of search with the same
\* query, page and limit return the same slice, for every page >= 1, whatever
\* the endpoints answer in between.
C11_DeterministicPages ==
    SameCallTwice => lastCall.results = lastCall.prev.results

\* ---------------------------------------------------------------- C14
\* C14: when every endpoint of every source throws, search resolves with
\* results = [], totalCount = 0 and hasMore = false.
C14_AllEndpointsFail ==
    (lastCall.kind # "none" /\ lastCall.error = SearchErrors.endpoint) =>
        /\ lastCall.kind = "returned"
        /\ lastCall.results = <<>>
        /\ lastCall.totalCount = 0
        /\ lastCall.hasMore = FALSE
        /\ ~lastCall.cached

\* the endpoints all threw for a call whose query already had a cached set
C14_Witness ==
    /\ lastCall.kind = "returned"
    /\ lastCall.error = SearchErrors.endpoint
    /\ lastCall.key \in DOMAIN resultsCache
    /\ Len(resultsCache[lastCall.key]) > 0

\* ---------------------------------------------------------------- C15
\* C15: search never rejects: for every query, page and limit the call
\* resolves with a response object.
C15_NeverRejects ==
    lastCall.kind # "none" => lastCall.kind = "returned"

\* ---------------------------------------------------------------- C12
RetryMaxTicks == 5
RetryMaxRetries == 2
RetryMaxNow == StartNow + RetryMaxTicks * TickMs

\* one request to an endpoint that answers HTTP 500 twice and then succeeds, on a
\* queue constructed with maxRetries: 2 and one of two rate limits
InitRetry ==
    /\ budget = [maxReq |-> 1, maxNow |-> RetryMaxNow,
                 intervals |-> {RequestIntervalMs, 2 * RequestIntervalMs},
                 priorities |-> {"normal"}, errors |-> {"http500"}, randoms |-> {0, 999},
                 maxRetries |-> RetryMaxRetries, timeoutMs |-> TimeoutMs]
    /\ InitQueue
    /\ InitSearchIdle

\* (with a single request the queue is never left non-empty between two steps,
\* so the periodic processQueue timer has nothing to do)
NextRetry ==
    \/ Tick
    \/ \E u \in Urls, p \in budget.priorities : Enqueue(u, p)
    \/ ResumeAfterDelay
    \/ \E r \in 1..Len(req) : req[r].attempts >= 3 /\ FetchSucceeds(r)
    \/ \E r \in 1..Len(req), error \in budget.errors : req[r].attempts <= 2 /\ FetchFails(r, error)
    \/ \E r \in 1..Len(req) : RetryTimer(r)

SpecRetry == InitRetry /\ [][NextRetry]_vars

\* C12: a request whose endpoint fails twice with a retryable error and then
\* succeeds is never rejected; it is resolved after exactly 3 attempts, and the
\* backoff before the third attempt is longer than the one before the second.
C12_RetryThenSuccess ==
    \A r \in 1..Len(req) :
        /\ req[r].st # "rejected"
        /\ req[r].st = "resolved" =>
               /\ req[r].attempts = 3
               /\ Len(req[r].delays) = 2
               /\ req[r].delays[2] > req[r].delays[1]

\* ---------------------------------------------------------------- C13
TimeoutMaxReq == 3
TimeoutMaxTicks == 4
TimeoutMaxNow == StartNow + TimeoutMaxTicks * TickMs

\* requests of one tier whose attempts all succeed, sooner or later
InitTimeout ==
    /\ budget = [maxReq |-> TimeoutMaxReq, maxNow |-> TimeoutMaxNow,
                 intervals |-> {RequestIntervalMs},
                 priorities |-> {"normal"}, errors |-> {}, randoms |-> {0},
                 maxRetries |-> MaxRetries, timeoutMs |-> TimeoutMs]
    /\ InitQueue
    /\ InitSearchIdle

\* no setTimeout callback is overdue
TimersOnTime ==
    /\ held = 0 \/ now < wakeAt
    /\ \A r \in 1..Len(req) : req[r].st = "backoff" => now < req[r].due

\* the clock advances only once every timer that is due has fired
TickOnTime == TimersOnTime /\ Tick

NextTimeout ==
    \/ TickOnTime
    \/ \E u \in Urls, p \in budget.priorities : Enqueue(u, p)
    \/ ResumeAfterDelay
    \/ \E r \in 1..Len(req) : FetchSucceeds(r)
    \/ ProcessTimer

SpecTimeout == InitTimeout /\ [][NextTimeout]_vars

\* C13: no fetch is ever issued for a request that has waited more than
\* timeoutMs for its first dispatch, and a request rejected for its time in the
\* queue was never attempted.
C13_QueueTimeout ==
    \A r \in 1..Len(req) :
        /\ ~req[r].late
        /\ (req[r].st = "rejected" /\ req[r].err = "queueTimeout" /\ req[r].retryCount = 0)
               => req[r].attempts = 0

\* ---------------------------------------------------------------- C17
CircuitMaxReq == 4
CircuitMaxTicks == 1
CircuitMaxNow == StartNow + CircuitMaxTicks * TickMs

\* requests of one tier to one endpoint that is down (every attempt ends with
\* HTTP 500), on a queue without rate limit (so processQueue never waits)
InitCircuit ==
    /\ budget = [maxReq |-> CircuitMaxReq, maxNow |-> CircuitMaxNow, intervals |-> {0},
                 priorities |-> {"normal"}, errors |-> {"http500"}, randoms |-> {0},
                 maxRetries |-> MaxRetries, timeoutMs |-> TimeoutMs]
    /\ InitQueue
    /\ InitSearchIdle

NextCircuit ==
    \/ Tick
    \/ \E u \in Urls, p \in budget.priorities : Enqueue(u, p)
    \/ \E r \in 1..Len(req), error \in budget.errors : FetchFails(r, error)
    \/ \E r \in 1..Len(req) : RetryTimer(r)
    \/ ProcessTimer

SpecCircuit == InitCircuit /\ [][NextCircuit]_vars

\* the circuit of u is open and will stay so for any call made at this instant
CircuitShut(u) ==
    /\ endpoints[u] # Absent
    /\ endpoints[u].state = "open"
    /\ now - endpoints[u].lastFailureTime < RecoveryTimeMs

\* request r as it was before the step (a request created by the step: as created)
Before(r) ==
    IF r <= Len(req) THEN req[r]
    ELSE [req'[r] EXCEPT !.attempts = 0, !.retryCount = 0, !.err = "none"]

\* C17: a request dispatched while canExecute is false for its endpoint is
\* rejected at once with the circuit-open error: no fetch is issued, its retry
\* count stays as it was, and it is not put back in the queue; and no fetch at
\* all is issued for an endpoint whose circuit is shut.
C17_CircuitOpenRejects ==
    [][\A r \in 1..Len(req') :
          /\ (req'[r].err = "circuit" /\ Before(r).err # "circuit") =>
                 /\ CircuitShut(req'[r].url)
                 /\ req'[r].st = "rejected"
                 /\ req'[r].attempts = Before(r).attempts
                 /\ req'[r].retryCount = Before(r).retryCount
                 /\ \A i \in 1..Len(queue') : queue'[i] # r
          /\ CircuitShut(req'[r].url) => req'[r].attempts = Before(r).attempts]_vars

\* a first dispatch and a retry have both been refused by the open circuit
C17_Witness ==
    /\ \E r \in 1..Len(req) :
           req[r].err = "circuit" /\ req[r].st = "rejected" /\ req[r].attempts = 0
    /\ \E r \in 1..Len(req) :
           req[r].err = "circuit" /\ req[r].st = "rejected" /\ req[r].attempts > 0

\* ---------------------------------------------------------------- C18
\* the errors an attempt can end with whose message the code or fetch fixes
AttemptErrors == {"http500", "http404", "http429", "http408", "fetch", "cors"}

InitErrors ==
    /\ budget = [maxReq |-> MaxReq, maxNow |-> QMaxNow, intervals |-> {RequestIntervalMs},
                 priorities |-> Priorities, errors |-> AttemptErrors, randoms |-> {0},
                 maxRetries |-> MaxRetries, timeoutMs |-> TimeoutMs]
    /\ InitQueue
    /\ InitSearchIdle

SpecErrors == InitErrors /\ [][Next]_vars

\* C18: an attempt that fails with a transient error is retried while retries
\* remain (so a request rejected with one has used them all), and one that
\* fails with another HTTP 4xx status or a cross-origin rejection is never
\* retried.
C18_ErrorClassification ==
    LET \* network failure, timeout, HTTP 408, HTTP 429, HTTP 5xx
        Transient == {"fetch", "aborted", "http408", "http429", "http500"}
    IN
    \A r \in 1..Len(req) :
        /\ (req[r].st = "rejected" /\ req[r].err \in Transient)
               => req[r].retryCount = budget.maxRetries
        /\ (req[r].st = "backoff") => req[r].lastErr \in Transient

\* ---------------------------------------------------------------- C16
\* search()'s source loop, one step per `await client.request(endpoint)`

\* most results one endpoint answers with
MaxEndpointResults == 2

\* searchSources, as the number of endpoints of each source in order:
\* part_015 (MWMBL, DuckDuckGo, Brave, Startpage), search.ts in development
\* and search.ts in production
SearchSourcesMulti == <<2, 1, 1, 1>>
SearchSourcesDev == <<2>>
SearchSourcesProd == <<1>>
SearchSources == {SearchSourcesMulti, SearchSourcesDev, SearchSourcesProd}

\* where the two for loops stand after the endpoint e of source s has been
\* tried: `break` when it gave results, otherwise the next endpoint, and the
\* next source when the endpoints are used up
afterEndpoint_noBreak(sources, s, e, got) ==
    IF e < sources[s] THEN <<s, e + 1>> ELSE <<s + 1, 1>>

afterEndpoint(sources, s, e, got) ==
    IF got > 0 THEN <<s + 1, 1>>
    ELSE IF e < sources[s] THEN <<s, e + 1>> ELSE <<s + 1, 1>>

\* results.map(result => ({...result, _source: source.name})) of an answer
\* with `got` results
resultsWithSource(s, e, got) ==
    [i \in 1..got |-> [source |-> s, endpoint |-> e, index |-> i]]

\* the loops move on from endpoint (s, e); after the last source the
\* `allResults.length === 0` test throws into the catch block
moveOn(F, got) ==
    LET at == afterEndpoint(F.sources, F.s, F.e, got)
    IN  IF at[1] <= Len(F.sources)
        THEN [F EXCEPT !.s = at[1], !.e = at[2],
                       !.requested = Append(@, <<at[1], at[2]>>)]
        ELSE [F EXCEPT !.pc = "done",
                       !.response = IF Len(F.allResults) = 0
                                    THEN catchResponse(IF F.lastError = "none"
                                                       THEN SearchErrors.allFailed
                                                       ELSE SearchErrors.endpoint)
                                    ELSE [results |-> F.allResults,
                                          error |-> SearchErrors.none]]

InitFanout ==
    /\ budget = [maxReq |-> 0, maxNow |-> StartNow, intervals |-> {RequestIntervalMs},
                 priorities |-> {}, errors |-> {"http500", "fetch"}, randoms |-> {0},
                 maxRetries |-> MaxRetries, timeoutMs |-> TimeoutMs]
    /\ InitQueue
    /\ results = <<>>
    /\ deduplicated = <<>>
    /\ dedupCalled = FALSE
    /\ resultsCache = <<>>
    /\ calls = {}
    /\ nCalls = 0
    /\ lastCall = NoSearch
    /\ InitClientIdle
    /\ \E sources \in SearchSources :
           fan = [pc |-> "await", sources |-> sources, s |-> 1, e |-> 1,
                  requested |-> << <<1, 1>> >>, outcomes |-> <<>>,
                  allResults |-> <<>>, lastError |-> "none",
                  response |-> NoResponse(SearchErrors.none)]

\* the awaited request resolves with data holding `got` results
EndpointReturns(got) ==
    /\ fan.pc = "await"
    /\ fan' = moveOn([fan EXCEPT !.outcomes = Append(@, got),
                                 !.allResults = @ \o resultsWithSource(fan.s, fan.e, got)],
                     got)
    /\ UNCHANGED <<sVars, requests, cache, budget, pVars, xVars, now, cbVars, qVars>>

\* the awaited request rejects: catch (endpointError) { lastError = ..; continue }
EndpointThrows(error) ==
    /\ fan.pc = "await"
    /\ fan' = moveOn([fan EXCEPT !.outcomes = Append(@, -1),
                                 !.lastError = error],
                     0)
    /\ UNCHANGED <<sVars, requests, cache, budget, pVars, xVars, now, cbVars, qVars>>

NextFanout ==
    \/ \E got \in 0..MaxEndpointResults : EndpointReturns(got)
    \/ \E error \in budget.errors : EndpointThrows(error)

SpecFanout == InitFanout /\ [][NextFanout]_vars

CacheTtlMs == 300000

\* the `timeout` a request() call is made with
RequestTimeoutMs == TickMs

\* JavaScript null, and the values an `if (value)` test takes as false
Null == "null"
Falsy == {Null, ""}

\* what an awaited fetch can fail with: a response that is not ok, a TypeError
\* ('Failed to fetch'), or the abort of the timeout controller
StatusOf == [http500 |-> 500, http404 |-> 404, http429 |-> 429, http408 |-> 408]

\* an Error object: whether it is an APIError, its status, name and message
\* (status -1 stands for a status that is not a number)
TypeErrorOf(message) ==
    [api |-> FALSE, status |-> -1, name |-> "TypeError", message |-> message]

\* createAPIError(status, message)
createAPIError(status, message) ==
    CASE status = 0 -> [api |-> TRUE, status |-> 0, name |-> "NetworkError", message |-> message]
      [] status = 400 -> [api |-> TRUE, status |-> 400, name |-> "ValidationError", message |-> message]
      [] status = 404 -> [api |-> TRUE, status |-> 404, name |-> "NotFoundError", message |-> message]
      [] status = 408 -> [api |-> TRUE, status |-> 408, name |-> "TimeoutError", message |-> message]
      [] status = 429 -> [api |-> TRUE, status |-> 429, name |-> "RateLimitError", message |-> message]
      [] status \in {500, 502, 503, 504} ->
             [api |-> TRUE, status |-> 500, name |-> "ServerError", message |-> message]
      [] OTHER -> [api |-> TRUE, status |-> status, name |-> "APIError", message |-> message]

isRetryableError_always(error) == TRUE

isRetryableError(error) ==
    IF error.api
    THEN IF error.status >= 400 /\ error.status < 500
         THEN error.status = 408 \/ error.status = 429
         ELSE error.status >= 500 \/ error.status = 0
    ELSE LET message == toLowerCase(ErrorMessage[error.message])
         IN  \/ includes(message, <<"t", "i", "m", "e", "o", "u", "t">>)
             \/ includes(message, <<"n", "e", "t", "w", "o", "r", "k">>)
             \/ includes(message, <<"f", "e", "t", "c", "h">>)
             \/ error.name = "TimeoutError"
             \/ error.name = "NetworkError"

\* getCacheKey(url, method, data) of a request without data
getCacheKey(url, method) == <<method, url>>

NoEntry == [data |-> Null, timestamp |-> -1, ttl |-> 0, by |-> 0]

\* getCachedResponse(cacheKey): what it returns, the entry it looked at, and
\* the cache after it
getCachedResponse(map, cacheKey, t) ==
    IF cacheKey \notin DOMAIN map
    THEN [data |-> Null, entry |-> NoEntry, cache |-> map]
    ELSE IF t - map[cacheKey].timestamp > map[cacheKey].ttl
         THEN [data |-> Null, entry |-> map[cacheKey],
               cache |-> [k \in (DOMAIN map) \ {cacheKey} |-> map[k]]]
         ELSE [data |-> map[cacheKey].data, entry |-> map[cacheKey], cache |-> map]

\* setCachedResponse(cacheKey, data) by the call `by`
setCachedResponse(map, cacheKey, data, t, by) ==
    MapSet(map, cacheKey, [data |-> data, timestamp |-> t, ttl |-> CacheTtlMs, by |-> by])

\* the request() call with the given config, before it has done anything
\* (signal: the caller passed an AbortSignal; timeoutAt: the deadline of the
\* timer that aborts the call's AbortController, 0 when none is pending;
\* history: attemptAt, when the pending fetch was started; timedOut, the timer
\* aborted a fetch; delays, the backoff waits; lastErr, what the last failed
\* attempt failed with; callerAborted and, at that moment, submitsAtAbort and
\* attemptsAtAbort, the attempts so far of the client and of the queue)
NewRequest(client, useQueue, method, useCache, retries, signal, t) ==
    [client |-> client, useQueue |-> useQueue, method |-> method, cache |-> useCache,
     url |-> CHOOSE u \in Urls : TRUE, retries |-> retries, attempt |-> 0,
     pc |-> "start", r |-> 0, due |-> 0, submits |-> 0, data |-> Null,
     fromCache |-> FALSE, err |-> "none", startedAt |-> t, found |-> NoEntry,
     hit |-> NoEntry, hitAt |-> 0,
     signal |-> signal, timeoutAt |-> 0, attemptAt |-> 0, timedOut |-> FALSE,
     delays |-> <<>>, lastErr |-> "none", callerAborted |-> FALSE,
     submitsAtAbort |-> 0, attemptsAtAbort |-> 0]

ReturnCached(C, look, t) ==
    [C EXCEPT !.pc = "returned", !.fromCache = TRUE, !.data = look.data,
              !.hit = look.entry, !.hitAt = t]

\* HTTPClient.request up to its first await: the cache lookup, then either the
\* queue (pc "enqueue": the caller goes on with requestQueue.enqueue) or fetch
httpRequest(C, map, t) ==
    LET cacheKey == getCacheKey(C.url, C.method)
        look == IF C.cache THEN getCachedResponse(map, cacheKey, t)
                ELSE [data |-> Null, entry |-> NoEntry, cache |-> map]
        C1 == [C EXCEPT !.found = IF C.cache /\ cacheKey \in DOMAIN map
                                  THEN map[cacheKey] ELSE NoEntry]
    IN  IF C.cache /\ look.data \notin Falsy
        THEN [call |-> ReturnCached(C1, look, t), cache |-> look.cache]
        ELSE IF C.useQueue
        THEN [call |-> [C1 EXCEPT !.pc = "queue", !.submits = @ + 1],
              cache |-> look.cache]
        ELSE [call |-> [C1 EXCEPT !.pc = "fetch", !.submits = @ + 1,
                                  !.timeoutAt = t + RequestTimeoutMs, !.attemptAt = t],
              cache |-> look.cache]

\* PrivacyHTTPClient.request up to its first await on the network: the cache
\* lookup, then requestQueue.addRequest(..), which RequestQueue does not
\* have, so that the call throws a TypeError into the catch block, or fetch
RECURSIVE privacyRequest(_, _, _)
privacyRequest(C, map, t) ==
    LET cacheKey == getCacheKey(C.url, C.method)
        look == IF C.cache /\ C.method = "GET" THEN getCachedResponse(map, cacheKey, t)
                ELSE [data |-> Null, entry |-> NoEntry, cache |-> map]
        C1 == IF C.attempt = 0
              THEN [C EXCEPT !.found = IF C.cache /\ C.method = "GET" /\ cacheKey \in DOMAIN map
                                       THEN map[cacheKey] ELSE NoEntry]
              ELSE C
    IN  IF look.data \notin Falsy
        THEN [call |-> ReturnCached(C1, look, t), cache |-> look.cache]
        ELSE IF C.useQueue
        THEN IF C.retries > 0 /\ isRetryableError(TypeErrorOf("notFunction"))
             THEN privacyRequest([C1 EXCEPT !.retries = @ - 1, !.attempt = @ + 1,
                                            !.submits = @ + 1],
                                 look.cache, t)
             ELSE [call |-> [C1 EXCEPT !.pc = "threw", !.submits = @ + 1,
                                       !.err = "notFunction", !.lastErr = "notFunction"],
                   cache |-> look.cache]
        ELSE [call |-> [C1 EXCEPT !.pc = "fetch", !.submits = @ + 1,
                                  !.timeoutAt = t + RequestTimeoutMs, !.attemptAt = t],
              cache |-> look.cache]

\* request(endpoint, config) is called
ClientRequest(client, useQueue, method, useCache, retries, signal) ==
    /\ Len(requests) < budget.maxReq
    /\ LET C == NewRequest(client, useQueue, method, useCache, retries, signal, now)
           after == IF client = "HTTPClient" THEN httpRequest(C, cache[client], now)
                    ELSE privacyRequest(C, cache[client], now)
       IN  /\ cache' = [cache EXCEPT ![client] = after.cache]
           /\ IF after.call.pc = "queue"
              THEN /\ requests' = Append(requests, [after.call EXCEPT !.r = nextId])
                   /\ enqueue(C.url, "normal")
              ELSE /\ requests' = Append(requests, after.call)
                   /\ UNCHANGED <<sVars, fan, budget, pVars, xVars, now, cbVars, qVars>>

\* the promise of requestQueue.enqueue settles: HTTPClient caches and returns
\* responseData, or rethrows the error
ClientQueueSettles(c, data) ==
    LET C == requests[c]
    IN  /\ C.pc = "queue"
        /\ req[C.r].st \in {"resolved", "rejected"}
        /\ IF req[C.r].st = "resolved"
           THEN /\ requests' = [requests EXCEPT ![c].pc = "returned", ![c].data = data]
                /\ cache' = IF C.cache /\ C.method = "GET"
                            THEN [cache EXCEPT ![C.client] =
                                     setCachedResponse(@, getCacheKey(C.url, C.method), data, now, c)]
                            ELSE cache
           ELSE /\ requests' = [requests EXCEPT ![c].pc = "threw", ![c].err = req[C.r].err]
                /\ UNCHANGED cache
        /\ UNCHANGED <<sVars, fan, budget, pVars, xVars, now, cbVars, qVars>>

\* the awaited fetch gave an ok response and it parsed: both clients cache a
\* GET made with caching and return responseData
ClientFetchSucceeds(c, data) ==
    LET C == requests[c]
    IN  /\ C.pc = "fetch"
        /\ requests' = [requests EXCEPT ![c].pc = "returned", ![c].data = data,
                                        ![c].timeoutAt = 0]
        /\ cache' = IF C.cache /\ C.method = "GET"
                    THEN [cache EXCEPT ![C.client] =
                             setCachedResponse(@, getCacheKey(C.url, C.method), data, now, c)]
                    ELSE cache
        /\ UNCHANGED <<sVars, fan, budget, pVars, xVars, now, cbVars, qVars>>

\* the catch block of HTTPClient's retry loop
httpCatch(C, outcome, t) ==
    LET lastError == IF outcome = "fetch" THEN createAPIError(0, "fetch")
                     ELSE createAPIError(StatusOf[outcome], outcome)
        C1 == [C EXCEPT !.timeoutAt = 0, !.lastErr = outcome]
    IN  IF outcome = "aborted"
        THEN [C1 EXCEPT !.pc = "threw",
                        !.err = IF C.signal /\ C.callerAborted THEN "AbortError"
                                ELSE "TimeoutError"]
        ELSE IF ~isRetryableError(lastError) \/ C.attempt >= C.retries
        THEN [C1 EXCEPT !.pc = "threw", !.err = outcome]
        ELSE [C1 EXCEPT !.pc = "backoff",
                        !.due = t + Min(1000 * Pow2(C.attempt), 10000),
                        !.delays = Append(@, Min(1000 * Pow2(C.attempt), 10000))]

\* the awaited fetch failed, or its response was not ok
ClientFetchFails(c, outcome) ==
    LET C == requests[c]
    IN  /\ C.pc = "fetch"
        /\ outcome = "aborted" => C.attempt = 0 \/ C.client = "PrivacyHTTPClient"
        /\ IF C.client = "HTTPClient"
           THEN /\ requests' = [requests EXCEPT ![c] = httpCatch(C, outcome, now)]
                /\ UNCHANGED cache
           ELSE LET error == IF outcome = "fetch" THEN TypeErrorOf("fetch")
                             ELSE [api |-> TRUE, status |-> -1, name |-> "APIError",
                                   message |-> outcome]
                    again == privacyRequest([C EXCEPT !.retries = @ - 1, !.attempt = @ + 1,
                                                      !.timeoutAt = 0, !.lastErr = outcome,
                                                      !.delays = Append(@, 0)],
                                            cache[C.client], now)
                IN  IF outcome # "aborted" /\ C.retries > 0 /\ isRetryableError(error)
                    THEN /\ requests' = [requests EXCEPT ![c] = again.call]
                         /\ cache' = [cache EXCEPT ![C.client] = again.cache]
                    ELSE /\ requests' = [requests EXCEPT
                                            ![c].pc = "threw", ![c].timeoutAt = 0,
                                            ![c].lastErr = outcome,
                                            ![c].err = IF outcome = "aborted"
                                                       THEN "TimeoutError" ELSE outcome]
                         /\ UNCHANGED cache
        /\ UNCHANGED <<sVars, fan, budget, pVars, xVars, now, cbVars, qVars>>

\* HTTPClient's backoff delay is over: attempt++ and the loop fetches again
ClientBackoffEnds(c) ==
    /\ requests[c].pc = "backoff"
    /\ now >= requests[c].due
    /\ requests' = IF requests[c].signal /\ requests[c].callerAborted
                   THEN \* fetch with an aborted signal rejects at once
                        [requests EXCEPT ![c].pc = "threw", ![c].attempt = @ + 1,
                                         ![c].due = 0, ![c].err = "AbortError",
                                         ![c].lastErr = "aborted"]
                   ELSE [requests EXCEPT ![c].pc = "fetch", ![c].attempt = @ + 1,
                                         ![c].submits = @ + 1, ![c].due = 0,
                                         ![c].attemptAt = now]
    /\ UNCHANGED <<sVars, fan, cache, budget, pVars, xVars, now, cbVars, qVars>>

\* setTimeout(() => controller.abort(), timeout) fires. HTTPClient hands
\* controller.signal to fetch only when the caller gave no signal of its own;
\* PrivacyHTTPClient always does. An aborted fetch rejects and the catch runs.
ClientTimeoutFires(c) ==
    LET C == requests[c]
    IN  /\ C.timeoutAt # 0
        /\ now >= C.timeoutAt
        /\ requests' =
              IF C.pc = "fetch" /\ (C.client = "PrivacyHTTPClient" \/ ~C.signal)
              THEN [requests EXCEPT ![c] =
                      IF C.client = "HTTPClient"
                      THEN [httpCatch(C, "aborted", now) EXCEPT !.timedOut = TRUE]
                      ELSE [C EXCEPT !.pc = "threw", !.timeoutAt = 0, !.timedOut = TRUE,
                                     !.lastErr = "aborted", !.err = "TimeoutError"]]
              ELSE [requests EXCEPT ![c].timeoutAt = 0]
        /\ UNCHANGED <<sVars, fan, cache, budget, pVars, xVars, now, cbVars, qVars>>

\* the caller aborts the signal it passed to request(). In direct mode the
\* pending fetch of HTTPClient holds that signal and rejects with AbortError,
\* which is rethrown; PrivacyHTTPClient's listener aborts its controller and
\* its catch reports every abort as a TimeoutError. In queue mode enqueue has
\* replaced the signal by AbortSignal.timeout, so nothing listens.
CallerAborts(c) ==
    LET C == requests[c]
        C1 == [C EXCEPT !.callerAborted = TRUE, !.submitsAtAbort = C.submits,
                        !.attemptsAtAbort = IF C.r = 0 THEN 0 ELSE req[C.r].attempts]
    IN  /\ C.signal
        /\ ~C.callerAborted
        /\ C.pc \in {"fetch", "queue", "backoff"}
        /\ C.pc = "queue" => req[C.r].st \notin {"resolved", "rejected"}
        /\ requests' =
              IF C.pc # "fetch" THEN [requests EXCEPT ![c] = C1]
              ELSE IF C.client = "HTTPClient"
              THEN [requests EXCEPT ![c] = httpCatch(C1, "aborted", now)]
              ELSE [requests EXCEPT ![c] =
                      [C1 EXCEPT !.pc = "threw", !.timeoutAt = 0,
                                 !.lastErr = "aborted", !.err = "TimeoutError"]]
        /\ UNCHANGED <<sVars, fan, cache, budget, pVars, xVars, now, cbVars, qVars>>

\* every client timer that is due has fired
ClientTimersOnTime ==
    \A c \in 1..Len(requests) :
        /\ requests[c].timeoutAt # 0 => now < requests[c].timeoutAt
        /\ requests[c].pc = "backoff" => now < requests[c].due

\* no caller is waiting for a promise that has already settled
ClientsNotified ==
    \A c \in 1..Len(requests) :
        requests[c].pc = "queue" => req[requests[c].r].st \notin {"resolved", "rejected"}

\* ---------------------------------------------------------------- C19
ClientMaxTicks == 1
ClientMaxNow == StartNow + ClientMaxTicks * TickMs

InitClient ==
    /\ budget = [maxReq |-> MaxReq, maxNow |-> ClientMaxNow, intervals |-> {RequestIntervalMs},
                 priorities |-> {"normal"}, errors |-> {"http500"}, randoms |-> {0},
                 maxRetries |-> MaxRetries, timeoutMs |-> TimeoutMs]
    /\ InitQueue
    /\ InitSearchIdle

NextClient ==
    \/ ClientsNotified /\ Tick
    \/ \E client \in Clients, useQueue \in BOOLEAN :
           ClientRequest(client, useQueue, "GET", FALSE, 1, FALSE)
    \/ \E c \in 1..Len(requests) : ClientQueueSettles(c, "results")
    \/ \E c \in 1..Len(requests) : ClientFetchSucceeds(c, "results")
    \/ \E c \in 1..Len(requests), outcome \in {"http500", "http404", "fetch", "aborted"} :
           ClientFetchFails(c, outcome)
    \/ \E c \in 1..Len(requests) : ClientBackoffEnds(c)
    \/ ResumeAfterDelay
    \/ \E r \in 1..Len(req) : FetchSucceeds(r)
    \/ \E r \in 1..Len(req), error \in budget.errors : FetchFails(r, error)
    \/ \E r \in 1..Len(req) : RetryTimer(r)
    \/ ProcessTimer

SpecClient == InitClient /\ [][NextClient]_vars

\* C19: of one request() call, at most one of the client and the RequestQueue
\* retries: a call in queue mode hands its request over at most once and never
\* fetches again itself, a call in direct mode has no request in the
\* RequestQueue, and the queue holds no request but those of queue-mode calls.
C19_OneRetryLayer ==
    /\ \A c \in 1..Len(requests) :
           LET C == requests[c]
               queueRetries == IF C.r = 0 THEN 0 ELSE req[C.r].retryCount
               clientRetries == IF C.submits > 1 THEN C.submits - 1 ELSE 0
           IN  /\ ~(queueRetries > 0 /\ clientRetries > 0)
               /\ C.useQueue => clientRetries = 0
               /\ ~C.useQueue => C.r = 0
    /\ Len(req) = Cardinality({c \in 1..Len(requests) : requests[c].r # 0})

\* a queue-mode call whose request the RequestQueue retried, and a direct call
\* that the client itself fetched again
C19_Witness ==
    /\ \E c \in 1..Len(requests) :
           /\ requests[c].useQueue
           /\ requests[c].r # 0
           /\ req[requests[c].r].retryCount > 0
           /\ requests[c].pc = "returned"
    /\ \E c \in 1..Len(requests) :
           /\ ~requests[c].useQueue
           /\ requests[c].submits > 1

\* ---------------------------------------------------------------- C20
\* the clock step, the number of steps and the number of request() calls of
\* the cache study
CacheTickMs == 150000
CacheMaxTicks == 3
CacheMaxReq == 2
CacheMaxNow == StartNow + CacheMaxTicks * CacheTickMs

\* what a successful response parses to: an object, or the empty string
ResponseData == {"results", ""}

InitCache ==
    /\ budget = [maxReq |-> CacheMaxReq, maxNow |-> CacheMaxNow,
                 intervals |-> {RequestIntervalMs}, priorities |-> {"normal"},
                 errors |-> {"http500"}, randoms |-> {0}, maxRetries |-> 0,
                 timeoutMs |-> TimeoutMs]
    /\ InitQueue
    /\ InitSearchIdle

LongTick ==
    /\ now + CacheTickMs <= budget.maxNow
    /\ now' = now + CacheTickMs
    /\ UNCHANGED <<sVars, fVars, budget, pVars, xVars, cbVars, qVars>>

NextCache ==
    \/ ClientsNotified /\ LongTick
    \/ \E client \in Clients, useQueue \in BOOLEAN, method \in {"GET", "POST"},
          useCache \in BOOLEAN :
           ClientRequest(client, useQueue, method, useCache, 0, FALSE)
    \/ \E c \in 1..Len(requests), data \in ResponseData : ClientQueueSettles(c, data)
    \/ \E c \in 1..Len(requests), data \in ResponseData : ClientFetchSucceeds(c, data)
    \/ \E c \in 1..Len(requests) : ClientFetchFails(c, "http500")
    \/ ResumeAfterDelay
    \/ \E r \in 1..Len(req) : FetchSucceeds(r)
    \/ \E r \in 1..Len(req), error \in budget.errors : FetchFails(r, error)
    \/ ProcessTimer

SpecCache == InitCache /\ [][NextCache]_vars

\* C20: a GET made with caching while the cache holds a response for its key
\* that was stored no more than the TTL before returns that response without
\* handing anything to the network or the queue; a response returned from the
\* cache was stored no more than the TTL before; and every cache entry was
\* stored by a GET made with caching that returned a response from the network.
C20_ResponseCache ==
    /\ \A c \in 1..Len(requests) :
           LET C == requests[c]
           IN  /\ (/\ C.method = "GET"
                   /\ C.cache
                   /\ C.found # NoEntry
                   /\ C.startedAt - C.found.timestamp <= CacheTtlMs)
                      => /\ C.pc = "returned"
                         /\ C.fromCache
                         /\ C.data = C.found.data
                         /\ C.submits = 0
               /\ C.fromCache
                      => /\ C.hit # NoEntry
                         /\ C.hitAt - C.hit.timestamp <= CacheTtlMs
                         /\ C.data = C.hit.data
    /\ \A client \in Clients :
           \A k \in DOMAIN cache[client] :
               LET by == cache[client][k].by
               IN  /\ k[1] = "GET"
                   /\ by \in 1..Len(requests)
                   /\ requests[by].client = client
                   /\ requests[by].method = "GET"
                   /\ requests[by].cache
                   /\ requests[by].pc = "returned"
                   /\ ~requests[by].fromCache

\* ---------------------------------------------------------------- C21
\* the full ranked set the last returned response was cut from
FullSetOfLastCall ==
    IF lastCall.fromCache THEN resultsCache[lastCall.key] ELSE lastCall.set

\* C21: a response that is not the error response holds exactly the elements
\* of the full ranked set at the 0-based positions (page-1)*limit up to but
\* not including page*limit, hence at most limit of them; its totalCount is the
\* length of that set; and its hasMore is true exactly when page*limit is less
\* than totalCount.
C21_ResultShape ==
    (lastCall.kind = "returned" /\ lastCall.error = SearchErrors.none) =>
        LET full == FullSetOfLastCall
            first == (lastCall.page - 1) * lastCall.limit
            last == lastCall.page * lastCall.limit
            positions == {i \in 1..Len(full) : first < i /\ i <= last}
        IN  /\ Len(lastCall.results) = Cardinality(positions)
            /\ \A k \in 1..Len(lastCall.results) : lastCall.results[k] = full[first + k]
            /\ Len(lastCall.results) <= lastCall.limit
            /\ lastCall.totalCount = Len(full)
            /\ lastCall.hasMore <=> (last < lastCall.totalCount)

\* page 2 with limit 1 of a set of three or more, served from the cache
C21_Witness ==
    /\ lastCall.kind = "returned"
    /\ lastCall.error = SearchErrors.none
    /\ lastCall.fromCache
    /\ lastCall.page = 2
    /\ lastCall.limit = 1
    /\ Len(lastCall.results) = 1
    /\ lastCall.hasMore
    /\ lastCall.totalCount >= 3

\* ---------------------------------------------------------------- C22
\* the two criteria of the ranking, read off a result
InWikipediaClass(r) ==
    \/ includes(r.domain, <<"w","i","k","i","p","e","d","i","a">>)
    \/ includes(r.url, <<"w","i","k","i","p","e","d","i","a">>)
FromDiverseSource(r) ==
    r.source \in {<<"d","u","c","k","d","u","c","k","g","o">>, <<"b","r","a","v","e">>,
                  <<"s","t","a","r","t","p","a","g","e">>}

\* x ranks strictly before y
RanksBefore(x, y) ==
    \/ ~InWikipediaClass(x) /\ InWikipediaClass(y)
    \/ /\ InWikipediaClass(x) = InWikipediaClass(y)
       /\ FromDiverseSource(x) /\ ~FromDiverseSource(y)
    \/ /\ InWikipediaClass(x) = InWikipediaClass(y)
       /\ FromDiverseSource(x) = FromDiverseSource(y)
       /\ x.relevance > y.relevance

C23_DiverseFirst ==
    dedupCalled =>
        \A i, j \in 1..Len(deduplicated) :
            i < j => ~(~FromDiverseSource(deduplicated[i]) /\ FromDiverseSource(deduplicated[j]))

\* ---------------------------------------------------------------- C24
\* executeRequest calls made so far, over all requests
RECURSIVE Dispatches(_)
Dispatches(rq) ==
    IF rq = <<>> THEN 0 ELSE rq[Len(rq)].dispatches + Dispatches(SubSeq(rq, 1, Len(rq) - 1))

PlacementMaxReq == 3

InitPlacement ==
    /\ budget = [maxReq |-> PlacementMaxReq, maxNow |-> QMaxNow, intervals |-> {0},
                 priorities |-> {"low", "high"}, errors |-> {"http500"}, randoms |-> {0},
                 maxRetries |-> MaxRetries, timeoutMs |-> TimeoutMs]
    /\ InitQueue
    /\ InitSearchIdle

\* no processQueue call of a timer is outstanding that would do anything
ProcessTimerDone ==
    Len(queue) = 0 \/ processing \/ processQueue(QState, now) = QState

NextPlacement ==
    \/ ProcessTimerDone /\ TickOnTime
    \/ \E u \in Urls, p \in budget.priorities : Enqueue(u, p)
    \/ \E r \in 1..Len(req) : FetchSucceeds(r)
    \/ \E r \in 1..Len(req), error \in budget.errors : FetchFails(r, error)
    \/ \E r \in 1..Len(req) : ProcessTimerDone /\ RetryTimer(r)
    \/ ProcessTimer

SpecPlacement == InitPlacement /\ [][NextPlacement]_vars

\* the position of request r in the queue q, 0 when it is not in it
PositionIn(q, r) ==
    IF \E i \in 1..Len(q) : q[i] = r THEN CHOOSE i \in 1..Len(q) : q[i] = r ELSE 0

\* C25: in the step that puts a request back after its backoff delay, every
\* waiting request of a higher tier stays ahead of it: if it is still in the
\* queue after the step, they are before it and the waiting requests of its
\* own tier behind it, and if the step dispatched it, none was waiting.
C25_RetryPlacement ==
    [][\A r \in 1..Len(req) :
           (req[r].st = "backoff" /\ req'[r].st # "backoff") =>
               LET tier == priorityOrder[req[r].priority]
                   at == PositionIn(queue', r)
               IN  IF at > 0
                   THEN \A i \in 1..Len(queue') :
                            LET other == priorityOrder[req'[queue'[i]].priority]
                            IN  /\ other > tier => i < at
                                /\ (other = tier /\ i # at) => i > at
                   ELSE \A i \in 1..Len(queue) :
                            priorityOrder[req[queue[i]].priority] <= tier]_vars


\* ---------------------------------------------------------------- C26
DeadlineMaxTicks == 2
DeadlineMaxReq == 2
DeadlineMaxNow == StartNow + DeadlineMaxTicks * TickMs

InitDeadline ==
    /\ budget = [maxReq |-> DeadlineMaxReq, maxNow |-> DeadlineMaxNow,
                 intervals |-> {RequestIntervalMs}, priorities |-> {"normal"},
                 errors |-> {"http500"}, randoms |-> {0},
                 maxRetries |-> MaxRetries, timeoutMs |-> TimeoutMs]
    /\ InitQueue
    /\ InitSearchIdle

\* calls in direct-fetch mode, with and without a signal of the caller
NextDeadline ==
    \/ ClientTimersOnTime /\ Tick
    \/ \E client \in Clients, signal \in BOOLEAN :
           ClientRequest(client, FALSE, "GET", FALSE, 1, signal)
    \/ \E c \in 1..Len(requests) : ClientFetchSucceeds(c, "results")
    \/ \E c \in 1..Len(requests), outcome \in {"http500", "http404", "fetch"} :
           ClientFetchFails(c, outcome)
    \/ \E c \in 1..Len(requests) : ClientBackoffEnds(c)
    \/ \E c \in 1..Len(requests) : ClientTimeoutFires(c)

SpecDeadline == InitDeadline /\ [][NextDeadline]_vars

\* C26: in direct-fetch mode no network attempt, first or retry, of a call
\* with or without a signal of the caller, stays pending for longer than the
\* configured timeout, and a call whose attempt the timeout aborted has
\* settled with a TimeoutError.
C26_DirectTimeout ==
    \A c \in 1..Len(requests) :
        LET C == requests[c]
        IN  ~C.useQueue =>
              /\ C.pc = "fetch" => now - C.attemptAt <= RequestTimeoutMs
              /\ C.timedOut => C.pc = "threw" /\ C.err = "TimeoutError"


\* ---------------------------------------------------------------- C27
\* calls of HTTPClient in queue mode and in direct mode, each with a signal of
\* the caller
NextCancel ==
    \/ ClientsNotified /\ Tick
    \/ \E useQueue \in BOOLEAN :
           ClientRequest("HTTPClient", useQueue, "GET", FALSE, 1, TRUE)
    \/ \E c \in 1..Len(requests) : CallerAborts(c)
    \/ \E c \in 1..Len(requests) : ClientQueueSettles(c, "results")
    \/ \E c \in 1..Len(requests) : ClientFetchSucceeds(c, "results")
    \/ \E c \in 1..Len(requests), outcome \in {"http500", "fetch"} :
           ClientFetchFails(c, outcome)
    \/ \E c \in 1..Len(requests) : ClientBackoffEnds(c)
    \/ ResumeAfterDelay
    \/ \E r \in 1..Len(req) : FetchSucceeds(r)
    \/ \E r \in 1..Len(req), error \in budget.errors : FetchFails(r, error)
    \/ \E r \in 1..Len(req) : RetryTimer(r)
    \/ ProcessTimer

SpecCancel == InitClient /\ [][NextCancel]_vars

\* C27: a call whose caller has aborted the signal it passed, in queue mode or
\* in direct mode, does not return a response, has settled with the
\* cancellation error if it has settled, and has started no network attempt
\* since the abort, neither itself nor through the RequestQueue.
C27_CallerCancels ==
    \A c \in 1..Len(requests) :
        LET C == requests[c]
        IN  C.callerAborted =>
              /\ C.pc # "returned"
              /\ C.pc = "threw" => C.err = "AbortError"
              /\ C.submits = C.submitsAtAbort
              /\ C.r # 0 => req[C.r].attempts = C.attemptsAtAbort


\* ---------------------------------------------------------------- C28
MaxUACalls == 3
RandomSteps == 4

RECURSIVE SumFirst(_, _)
SumFirst(weights, n) == IF n = 0 THEN 0 ELSE SumFirst(weights, n - 1) + weights[n]

availableAgents_unfiltered(agents, lastUserAgent) == agents

\* agents.filter(agent => agent !== this.lastUserAgent)
availableAgents(agents, lastUserAgent) ==
    SelectSeq(agents, LAMBDA agent : agent # lastUserAgent)

\* selectWeightedRandom(agents), Math.random() having returned k / RandomSteps:
\* the first agent at which random, less the weights so far, is <= 0, and the
\* last agent when there is none
selectWeightedRandom(agents, usageHistory, k) ==
    LET weights == [i \in 1..Len(agents) |-> Max(1, 10 - usageHistory[agents[i]])]
        totalWeight == SumFirst(weights, Len(agents))
        random == (k * totalWeight) \div RandomSteps
        hits == {i \in 1..Len(agents) : random - SumFirst(weights, i) <= 0}
    IN  IF hits # {} THEN agents[CHOOSE i \in hits : \A j \in hits : i <= j]
        ELSE agents[Len(agents)]

\* getRandomUserAgent(privacyMode), Math.random() returning k / RandomSteps
getRandomUserAgent(R, privacyMode, k) ==
    LET agents == IF privacyMode THEN PRIVACY_USER_AGENTS ELSE USER_AGENTS
        available == availableAgents(agents, R.lastUserAgent)
        selectedAgent == selectWeightedRandom(available, R.usageHistory, k)
    IN  IF Len(available) = 0
        THEN [R EXCEPT !.usageHistory = [agent \in DOMAIN @ |-> 0],
                       !.returned = Append(@, [ua |-> agents[(k * Len(agents)) \div RandomSteps + 1],
                                               privacyMode |-> privacyMode])]
        ELSE [R EXCEPT !.lastUserAgent = selectedAgent,
                       !.usageHistory[selectedAgent] = @ + 1,
                       !.returned = Append(@, [ua |-> selectedAgent,
                                               privacyMode |-> privacyMode])]

GetRandomUserAgent(privacyMode, k) ==
    /\ Len(rotator.returned) < MaxUACalls
    /\ rotator' = getRandomUserAgent(rotator, privacyMode, k)
    /\ UNCHANGED <<budget, now, cbVars, qVars, sVars, fVars, obfuscator, xVars>>

InitRotator ==
    /\ budget = [maxReq |-> 0, maxNow |-> StartNow, intervals |-> {RequestIntervalMs},
                 priorities |-> {}, errors |-> {}, randoms |-> {0},
                 maxRetries |-> MaxRetries, timeoutMs |-> TimeoutMs]
    /\ InitQueue
    /\ InitSearchIdle

NextRotator ==
    \E privacyMode \in BOOLEAN, k \in 0..(RandomSteps - 1) :
        GetRandomUserAgent(privacyMode, k)

SpecRotator == InitRotator /\ [][NextRotator]_vars

\* C28: of the user agents returned by the getRandomUserAgent calls so far,
\* whatever privacyMode each call was made with, none equals the one returned
\* by the call just before it.
C28_Rotation ==
    \A i \in 1..(Len(rotator.returned) - 1) :
        rotator.returned[i + 1].ua # rotator.returned[i].ua

\* two consecutive calls with different privacyMode, the first returning an
\* agent that is also in the list the second chooses from
C28_Witness ==
    \E i \in 1..(Len(rotator.returned) - 1) :
        /\ rotator.returned[i].privacyMode # rotator.returned[i + 1].privacyMode
        /\ rotator.returned[i].ua \in
              AgentsOf(IF rotator.returned[i + 1].privacyMode
                       THEN PRIVACY_USER_AGENTS ELSE USER_AGENTS)


\* ---------------------------------------------------------------- C29
DecoyMaxTicks == 2
DecoyMaxTasks == 2
DecoyMaxNow == StartNow + DecoyMaxTicks * TickMs

\* what generateRandomDelay returns: the bounds of the delay of a decoy task
\* and of PrivacyHTTPClient's default privacy settings
DecoyDelays == {1000, 5000}
RealDelays == {200, 1000}
\* Math.random() * 10 * 60 * 1000
RandomOffsets == {0, 600000}

\* the code after `await delayPromise` of addRandomDelay for task i, then its
\* caller: scheduleFakeQuery goes on to executeFakeQuery, which calls fetch; a
\* real request goes on in PrivacyHTTPClient.request
afterDelay(O, i, t) ==
    [O EXCEPT !.activeDelays = @ \ {i},
              !.lastRequestTime = t,
              !.tasks[i].pc = IF O.tasks[i].kind = "decoy" THEN "fetch" ELSE "done",
              !.decoysSinceStop = IF O.tasks[i].kind = "decoy" THEN @ + 1 ELSE @]

\* addRandomDelay(options) called at time t, generateRandomDelay returning delay
addRandomDelay(O, kind, delay, t) ==
    LET timeSinceLastRequest == t - O.lastRequestTime
        additionalDelay == Max(0, delay - timeSinceLastRequest)
        i == Len(O.tasks) + 1
        O1 == [O EXCEPT !.tasks = Append(@, [kind |-> kind, pc |-> "delay",
                                             due |-> t + additionalDelay])]
    IN  IF additionalDelay > 0
        THEN [O1 EXCEPT !.activeDelays = @ \cup {i}]
        ELSE afterDelay(O1, i, t)

\* PrivacyHTTPClient.request calls addRandomDelay for a real request
AddRandomDelay(delay) ==
    /\ Len(obfuscator.tasks) < DecoyMaxTasks
    /\ obfuscator' = addRandomDelay(obfuscator, "real", delay, now)
    /\ UNCHANGED <<budget, now, cbVars, qVars, sVars, fVars, rotator, xVars>>

\* the interval timer fires: scheduleFakeQuery() up to its await
SchedulerFires(delay) ==
    /\ obfuscator.fakeQueryScheduler
    /\ now >= obfuscator.fireAt
    /\ Len(obfuscator.tasks) < DecoyMaxTasks
    /\ obfuscator' = [addRandomDelay(obfuscator, "decoy", delay, now)
                         EXCEPT !.fireAt = @ + obfuscator.intervalMs]
    /\ UNCHANGED <<budget, now, cbVars, qVars, sVars, fVars, rotator, xVars>>

\* setTimeout(resolve, additionalDelay) fires
DelayEnds(i) ==
    /\ obfuscator.tasks[i].pc = "delay"
    /\ now >= obfuscator.tasks[i].due
    /\ obfuscator' = afterDelay(obfuscator, i, now)
    /\ UNCHANGED <<budget, now, cbVars, qVars, sVars, fVars, rotator, xVars>>

\* the fetch of executeFakeQuery settles; its outcome is ignored
DecoyFetchSettles(i) ==
    /\ obfuscator.tasks[i].pc = "fetch"
    /\ obfuscator' = [obfuscator EXCEPT !.tasks[i].pc = "done"]
    /\ UNCHANGED <<budget, now, cbVars, qVars, sVars, fVars, rotator, xVars>>

\* configureFakeQueries({enabled, frequency}), no searchTerms
ConfigureFakeQueries(enabled, randomOffset) ==
    /\ obfuscator' =
          IF enabled
          THEN [obfuscator EXCEPT !.fakeQueryScheduler = TRUE,
                                  !.intervalMs = BaseIntervalMs + randomOffset,
                                  !.fireAt = now + BaseIntervalMs + randomOffset,
                                  !.stopped = FALSE]
          ELSE [obfuscator EXCEPT !.fakeQueryScheduler = FALSE,
                                  !.stopped = TRUE, !.decoysSinceStop = 0]
    /\ UNCHANGED <<budget, now, cbVars, qVars, sVars, fVars, rotator, xVars>>

\* destroy()
Destroy ==
    /\ obfuscator' = [obfuscator EXCEPT !.fakeQueryScheduler = FALSE,
                                        !.activeDelays = {},
                                        !.stopped = TRUE, !.decoysSinceStop = 0]
    /\ UNCHANGED <<budget, now, cbVars, qVars, sVars, fVars, rotator, xVars>>

\* every timer of the obfuscator that is due has fired
DecoyTimersOnTime ==
    /\ obfuscator.fakeQueryScheduler => now < obfuscator.fireAt
    /\ \A i \in 1..Len(obfuscator.tasks) :
           obfuscator.tasks[i].pc = "delay" => now < obfuscator.tasks[i].due

\* an obfuscator constructed long enough ago for its interval timer to fire
\* one tick from now
InitDecoy ==
    /\ budget = [maxReq |-> 0, maxNow |-> DecoyMaxNow, intervals |-> {RequestIntervalMs},
                 priorities |-> {}, errors |-> {}, randoms |-> {0},
                 maxRetries |-> MaxRetries, timeoutMs |-> TimeoutMs]
    /\ InitQueue
    /\ fan = NoFanout
    /\ requests = <<>>
    /\ cache = [client \in Clients |-> <<>>]
    /\ rotator = NewRotator
    /\ store = NewStore
    /\ resolver = NewResolver
    /\ obfuscator = [NewObfuscator EXCEPT !.fireAt = StartNow + TickMs]
    /\ results = <<>>
    /\ deduplicated = <<>>
    /\ dedupCalled = FALSE
    /\ resultsCache = <<>>
    /\ calls = {}
    /\ nCalls = 0
    /\ lastCall = NoSearch

NextDecoy ==
    \/ DecoyTimersOnTime /\ Tick
    \/ \E delay \in RealDelays : AddRandomDelay(delay)
    \/ \E delay \in DecoyDelays : SchedulerFires(delay)
    \/ \E i \in 1..Len(obfuscator.tasks) : DelayEnds(i)
    \/ \E i \in 1..Len(obfuscator.tasks) : DecoyFetchSettles(i)
    \/ \E enabled \in BOOLEAN, randomOffset \in RandomOffsets :
           ConfigureFakeQueries(enabled, randomOffset)
    \/ Destroy

SpecDecoy == InitDecoy /\ [][NextDecoy]_vars

\* C29: while the obfuscator is stopped, that is since the last
\* configureFakeQueries({enabled: false}) or destroy() returned and until
\* decoys are enabled again, no decoy request has been issued, not even by a
\* decoy task the scheduler had started before.
C29_DecoysStop ==
    obfuscator.stopped => obfuscator.decoysSinceStop = 0


\* ---------------------------------------------------------------- C30
\* what a failed attempt failed with, when the error is transient: a network
\* failure, the abort by the timeout timer, HTTP 429, HTTP 5xx
TransientOutcomes == {"fetch", "aborted", "http429", "http500"}

\* the `retries` the call was made with: PrivacyHTTPClient passes retries - 1
\* to the call that retries
RetriesGiven(C) == IF C.client = "PrivacyHTTPClient" THEN C.retries + C.attempt ELSE C.retries

\* C30: a call in direct-fetch mode makes at most retries + 1 attempts; when
\* it has thrown after an attempt that failed with a transient error, it has
\* made all retries + 1 attempts; each retry has waited longer than the one
\* before; and after an attempt that failed with an error that is not
\* transient the call has thrown.
C30_DirectRetry ==
    \A c \in 1..Len(requests) :
        LET C == requests[c]
        IN  ~C.useQueue =>
              /\ C.submits <= RetriesGiven(C) + 1
              /\ (C.pc = "threw" /\ C.lastErr \in TransientOutcomes) =>
                     C.submits = RetriesGiven(C) + 1
              /\ \A i \in 1..(Len(C.delays) - 1) : C.delays[i] < C.delays[i + 1]
              /\ C.lastErr = "http404" => C.pc = "threw"


\* ---------------------------------------------------------------- C31
\* C31: no request has had more than maxRetries + 1 network attempts or has a
\* retryCount above maxRetries, and a request whose last failure was one that
\* shouldRetry refuses is rejected with that error: it is not waiting, not in
\* flight again and not resolved.
C31_RetryBudget ==
    \A r \in 1..Len(req) :
        /\ req[r].attempts <= budget.maxRetries + 1
        /\ req[r].retryCount <= budget.maxRetries
        /\ (req[r].lastErr # "none" /\ ~shouldRetryOf[req[r].lastErr]) =>
               (req[r].st = "rejected" /\ req[r].err = req[r].lastErr)

\* a request rejected after maxRetries + 1 attempts that all failed with a
\* retryable error
C31_Witness ==
    \E r \in 1..Len(req) :
        /\ req[r].st = "rejected"
        /\ req[r].attempts = budget.maxRetries + 1
        /\ req[r].retryCount = budget.maxRetries
        /\ shouldRetryOf[req[r].lastErr]

\* ---------------------------------------------------------------- C32
\* C32: when at least monitoringPeriodMs has elapsed since the last failure
\* recorded for a closed endpoint (every sweep that was due has run), the old
\* failures no longer count: the next recordFailure leaves the failure count
\* at 1.
C32_StaleFailuresDecay ==
    [][\A e \in Endpoints :
          (/\ endpoints' = recordFailure(endpoints, e, now)
           /\ cbLast'.op = "recordFailure" /\ cbLast'.endpoint = e
           /\ StateOf(endpoints, e) = "closed"
           /\ failAt[e] >= 0
           /\ now - failAt[e] >= MonitoringPeriodMs
           /\ now < nextSweepAt)
              => FailuresOf(endpoints', e) = 1]_vars

\* ---------------------------------------------------------------- C33
\* C33: after any sequence of canExecute, recordSuccess, recordFailure, reset
\* and sweep, an endpoint is closed exactly when its failure count is below
\* failureThreshold; an open or half-open endpoint has a failure count of at
\* least failureThreshold.
C33_StateMatchesCount ==
    \A e \in DOMAIN endpoints :
        /\ (StateOf(endpoints, e) = "closed") <=> (FailuresOf(endpoints, e) < FailureThreshold)
        /\ StateOf(endpoints, e) \in {"closed", "open", "half-open"}

\* a sweep has just run, more than a monitoring period after the last failure
\* of an endpoint that is open or half-open, and left its count in place
C33_Witness ==
    \E e \in DOMAIN endpoints :
        /\ cbLast.op = "cleanupOldStats"
        /\ StateOf(endpoints, e) \in {"open", "half-open"}
        /\ failAt[e] >= 0 /\ now - failAt[e] > MonitoringPeriodMs
        /\ FailuresOf(endpoints, e) >= FailureThreshold

\* ---------------------------------------------------------------- C34
\* C34: a request the queue rejects because the circuit of its endpoint is
\* open leaves the EndpointStats of that endpoint as they were: in a step in
\* which no fetch completes, the failure count and the last-failure time of
\* the endpoint of a request rejected with the circuit-open error are
\* unchanged.
C34_OpenRejectionFrame ==
    [][\A r \in 1..Len(req') :
          (/\ req'[r].err = "circuit" /\ Before(r).err # "circuit"
           /\ \A q \in 1..Len(req) : req[q].st = "inflight" => req'[q].st = "inflight")
              => LET old == getEndpointStats(endpoints, req'[r].url)
                     new == getEndpointStats(endpoints', req'[r].url)
                 IN  /\ new.failures = old.failures
                     /\ new.lastFailureTime = old.lastFailureTime]_vars

\* ---------------------------------------------------------------- C35
Settled == {"resolved", "rejected"}

\* C35: the continuation of each request is settled at most once, by exactly
\* one of success, final failure of an attempt, queue-timeout eviction or
\* clearQueue; a settled request is not in the queue and not held for
\* dispatch, and no step dispatches it, schedules a retry for it or settles it
\* again.
C35_SettledOnce ==
    [][\A r \in 1..Len(req') :
          /\ req'[r].settled <= 1
          /\ (req'[r].settled = 1) <=> (req'[r].st \in Settled)
          /\ req'[r].st = "resolved" => req'[r].err = "none"
          /\ req'[r].st = "rejected" =>
                 \/ req'[r].err \in {"queueTimeout", "cleared"} /\ req'[r].err # req'[r].lastErr
                 \/ req'[r].err = req'[r].lastErr /\ req'[r].err \in budget.errors \cup {"circuit"}
          /\ req'[r].st \in Settled =>
                 /\ \A i \in 1..Len(queue') : queue'[i] # r
                 /\ held' # r
          /\ (r <= Len(req) /\ req[r].st \in Settled) => req'[r] = req[r]]_vars

\* one request was rejected by clearQueue and another settled after a retry,
\* and the clock has advanced since
C35_Witness ==
    /\ \E r \in 1..Len(req) : req[r].st = "rejected" /\ req[r].err = "cleared"
    /\ \E r \in 1..Len(req) : req[r].st \in Settled /\ req[r].attempts = 2
    /\ now > StartNow

\* ---------------------------------------------------------------- C36
\* Liveness of the queue. Every fetch completes (within one tick of its
\* dispatch), every timer fires when it is due, and finitely many requests are
\* enqueued; the clock is followed only while a timer or a fetch is pending.
LiveMaxReq == 2

\* a request takes at most its queue timeout, one rate-limit wait, one fetch
\* and one backoff delay of the clock
LiveMaxNow == StartNow + LiveMaxReq * (TimeoutMs + MaxDelayMs + 2 * TickMs)

InitLive ==
    /\ budget = [maxReq |-> LiveMaxReq, maxNow |-> LiveMaxNow, intervals |-> {RequestIntervalMs},
                 priorities |-> {"normal"}, errors |-> {"http500"}, randoms |-> {0},
                 maxRetries |-> MaxRetries, timeoutMs |-> TimeoutMs]
    /\ InitQueue
    /\ InitSearchIdle

\* a setTimeout callback or a fetch is pending
TimePending ==
    \/ held # 0
    \/ \E r \in 1..Len(req) : req[r].st = "backoff"
    \/ \E r \in 1..Len(req) : req[r].st = "inflight" /\ now - lastRequestTime < TickMs

TickLive == TimePending /\ ProcessTimerDone /\ TickOnTime

\* the fetch of request r completes, one way or the other
FetchCompletes(r) ==
    /\ r \in 1..Len(req)
    /\ \/ FetchSucceeds(r)
       \/ \E error \in budget.errors : FetchFails(r, error)

RetryTimerFires(r) == r \in 1..Len(req) /\ RetryTimer(r)

\* the callers enqueue during the first tick of the clock and then stop
EnqueueLive(url, priority) == now - StartNow <= TickMs /\ Enqueue(url, priority)

NextLive ==
    \/ TickLive
    \/ \E u \in Urls, p \in budget.priorities : EnqueueLive(u, p)
    \/ ResumeAfterDelay
    \/ \E r \in 1..LiveMaxReq : FetchCompletes(r)
    \/ \E r \in 1..LiveMaxReq : RetryTimerFires(r)
    \/ ProcessTimer
    \/ ClearQueue

\* a step of the environment or of a callback: a fetch completes, a
\* setTimeout or setInterval callback runs, time passes
Progress ==
    \/ TickLive
    \/ ResumeAfterDelay
    \/ ProcessTimer
    \/ \E r \in 1..LiveMaxReq : FetchCompletes(r)
    \/ \E r \in 1..LiveMaxReq : RetryTimerFires(r)

\* as long as a fetch is pending or a callback is due, one of them happens
FairLive == WF_vars(Progress)

SpecLive == InitLive /\ [][NextLive]_vars /\ FairLive

\* every request enqueued so far is settled, and the queue is idle
Quiescent ==
    /\ \A r \in 1..Len(req) : req[r].st \in Settled
    /\ Len(queue) = 0
    /\ activeRequests = 0

\* the horizon of the clock is not what stops a timer
LiveHorizonFree ==
    now = budget.maxNow => (held = 0 /\ \A r \in 1..Len(req) : req[r].st # "backoff")

\* C36: every enqueued request is eventually settled, and the queue eventually
\* becomes empty with activeRequests = 0 (and, no further request being
\* enqueued, stays so).
C36_QueueDrains == <>[]Quiescent

\* all the requests have settled, one of them after a retry
C36_Witness ==
    /\ Len(req) = LiveMaxReq
    /\ Quiescent
    /\ \E r \in 1..Len(req) : req[r].attempts = 2
    /\ \E r \in 1..Len(req) : req[r].st = "resolved"

\* ---------------------------------------------------------------- C37
\* Requests that keep arriving. A settled request is garbage, so its place in
\* req is taken by a later request; dispatchLog and the breaker's successes
\* counter, which the queue never reads, are not followed; and the clock is
\* followed up to a horizon later than the queue timeout of the requests made
\* in the first instant (the queue has no rate limit and every fetch succeeds,
\* so nothing else waits for it).
StarveMaxReq == 3
StarveMaxNow == StartNow + TimeoutMs + TickMs

InitStarve ==
    /\ budget = [maxReq |-> StarveMaxReq, maxNow |-> StarveMaxNow, intervals |-> {0},
                 priorities |-> {"low", "high"}, errors |-> {}, randoms |-> {0},
                 maxRetries |-> MaxRetries, timeoutMs |-> TimeoutMs]
    /\ InitQueue
    /\ InitSearchIdle

\* the QueuedRequest enqueue creates at time t
QueuedRequest(url, priority, t) ==
    [url |-> url, priority |-> priority, retryCount |-> 0,
     createdAt |-> t, st |-> "queued", due |-> 0, err |-> "none",
     attempts |-> 0, delays |-> <<>>, late |-> FALSE,
     lastErr |-> "none", dispatches |-> 0, settled |-> 0,
     stAtClear |-> "none", attemptsAtClear |-> 0]

\* enqueue(url, options, priority), called when no processQueue call of a
\* timer is outstanding; lower-priority requests are made in the first instant
\* only, so that each of them is older than timeoutMs at the horizon
EnqueueStarve(url, priority) ==
    /\ ProcessTimerDone
    /\ priority # "high" => now = StartNow
    /\ \E k \in 1..budget.maxReq :
          /\ IF nextId <= budget.maxReq THEN k = nextId ELSE req[k].st \in Settled
          /\ LET request == QueuedRequest(url, priority, now)
                 rq == IF k > Len(req) THEN Append(req, request)
                       ELSE [req EXCEPT ![k] = request]
                 insertIndex == findInsertIndex(queue, rq, priority)
                 S == [QState EXCEPT !.req = rq, !.log = <<>>,
                                     !.queue = InsertAt(queue, insertIndex, k)]
             IN  Becomes(processQueue(S, now))
    /\ nextId' = IF nextId <= budget.maxReq THEN nextId + 1 ELSE nextId
    /\ UNCHANGED <<sVars, fVars, budget, pVars, xVars, now, nextSweepAt, cbHistory, requestIntervalMs>>

\* fetch resolved with an ok response and response.json() parsed
FetchSucceedsStarve(r) ==
    /\ r \in 1..Len(req)
    /\ req[r].st = "inflight"
    /\ LET eps == recordSuccess(endpoints, req[r].url, now)
           S1 == [QState EXCEPT !.eps = [eps EXCEPT ![req[r].url].successes = Min(@, MaxSuccesses)],
                                !.req[r].st = "resolved",
                                !.req[r].settled = @ + 1]
       IN  Becomes([S1 EXCEPT !.active = @ - 1])
    /\ UNCHANGED <<sVars, fVars, budget, pVars, xVars, now, nextId, nextSweepAt, cbHistory, requestIntervalMs>>

TickStarve == ProcessTimerDone /\ Tick

NextStarve ==
    \/ TickStarve
    \/ \E u \in Urls, p \in budget.priorities : EnqueueStarve(u, p)
    \/ \E r \in 1..StarveMaxReq : FetchSucceedsStarve(r)
    \/ ProcessTimer

\* time passes (whatever else happens), every fetch completes, the
\* setInterval callback runs
FairStarve ==
    /\ SF_vars(TickStarve)
    /\ WF_vars(ProcessTimer)
    /\ \A r \in 1..StarveMaxReq : WF_vars(FetchSucceedsStarve(r))

SpecStarve == InitStarve /\ [][NextStarve]_vars /\ FairStarve

\* request r is in the queue
Waiting(r) == r <= Len(req) /\ req[r].st = "queued"

\* C37: a request waiting in the queue does not wait forever: whatever is
\* enqueued ahead of it, it is eventually dispatched or rejected.
C37_NoStarvation ==
    \A r \in 1..StarveMaxReq : Waiting(r) ~> ~Waiting(r)

\* ---------------------------------------------------------------- C38
\* clearQueue() called at any time a request is pending, timers firing on time
StopMaxTicks == 2
StopMaxNow == StartNow + StopMaxTicks * TickMs

InitStop ==
    /\ budget = [maxReq |-> MaxReq, maxNow |-> StopMaxNow, intervals |-> {RequestIntervalMs},
                 priorities |-> {"normal"}, errors |-> {"http500"}, randoms |-> {0},
                 maxRetries |-> MaxRetries, timeoutMs |-> TimeoutMs]
    /\ InitQueue
    /\ InitSearchIdle

ClearQueueAnyTime ==
    /\ ProcessTimerDone
    /\ \E r \in 1..Len(req) : req[r].st \notin Settled
    /\ req' = clearQueue(req, queue)
    /\ queue' = <<>>
    /\ UNCHANGED <<sVars, fVars, budget, pVars, xVars, now, cbVars, nextId, activeRequests, lastRequestTime, processing, held,
                   wakeAt, dispatchLog, requestIntervalMs>>

NextStop ==
    \/ ProcessTimerDone /\ TickOnTime
    \/ \E u \in Urls, p \in budget.priorities : Enqueue(u, p)
    \/ ResumeAfterDelay
    \/ \E r \in 1..Len(req) : FetchSucceeds(r)
    \/ \E r \in 1..Len(req), error \in budget.errors : FetchFails(r, error)
    \/ \E r \in 1..Len(req) : RetryTimer(r)
    \/ ProcessTimer
    \/ ClearQueueAnyTime

SpecStop == InitStop /\ [][NextStop]_vars

\* C38: once clearQueue() has returned, no further network attempt is started
\* for a request that was pending when it was called, a request waiting out a
\* retry backoff or the rate-limit spacing included, and each such request
\* that had no call in flight is rejected.
C38_ClearStops ==
    \A r \in 1..Len(req) :
        req[r].stAtClear # "none" =>
            /\ req[r].attempts = req[r].attemptsAtClear
            /\ req[r].stAtClear # "inflight" => req[r].st = "rejected"

\* ========================================================= useSearchStore
StoreMaxCalls == 3
StoreQueries == {<<"a">>, <<"b", " ">>, <<" ">>}

\* the search() calls whose searchAPI.search has not answered yet
SearchesInFlight == {i \in 1..Len(store.calls) : store.calls[i].pc = "fetch"}

\* search(query, page, limit) up to `await searchAPI.search(..)`
search(st, query, page) ==
    IF trim(query) = <<>> THEN st
    ELSE [st EXCEPT !.loading = TRUE, !.error = "null", !.query = trim(query),
                    !.page = page,
                    !.results = IF page = 1 THEN <<>> ELSE @,
                    !.calls = Append(@, [query |-> trim(query), page |-> page, pc |-> "fetch"])]

\* the results searchAPI.search answers call c with: each is a result for
\* c.query; count of them, and whether there are more
responseTo(c, count) == [k \in 1..count |-> [query |-> c.query, page |-> c.page]]

\* search(): searchAPI.search resolved with `response`
afterResponse(st, i, responseResults, hasMore) ==
    LET c == st.calls[i]
        currentResults == IF c.page = 1 THEN <<>> ELSE st.results
        newResults == IF c.page = 1 THEN responseResults ELSE currentResults \o responseResults
    IN  [st EXCEPT !.results = newResults, !.loading = FALSE, !.hasMore = hasMore,
                   !.calls[i].pc = "done"]

\* search(): the catch block
afterError(st, i) ==
    [st EXCEPT !.loading = FALSE, !.error = "Search failed", !.calls[i].pc = "failed"]

\* useSearch.performSearch(searchQuery, pageNum) / useSearchStore.search
Search(query, page) ==
    /\ Len(store.calls) < StoreMaxCalls
    /\ store' = search(store, query, page)
    /\ UNCHANGED <<budget, now, cbVars, qVars, sVars, fVars, pVars, resolver>>

\* useSearchStore.loadMore()
LoadMore ==
    /\ Len(store.calls) < StoreMaxCalls
    /\ store.hasMore /\ ~store.loading /\ store.query # <<>>
    /\ store' = search(store, store.query, store.page + 1)
    /\ UNCHANGED <<budget, now, cbVars, qVars, sVars, fVars, pVars, resolver>>

StoreSearchResolves(i, count, hasMore) ==
    /\ store.calls[i].pc = "fetch"
    /\ store' = afterResponse(store, i, responseTo(store.calls[i], count), hasMore)
    /\ UNCHANGED <<budget, now, cbVars, qVars, sVars, fVars, pVars, resolver>>

StoreSearchThrows(i) ==
    /\ store.calls[i].pc = "fetch"
    /\ store' = afterError(store, i)
    /\ UNCHANGED <<budget, now, cbVars, qVars, sVars, fVars, pVars, resolver>>

InitStore == InitCB

NextStore ==
    \/ \E query \in StoreQueries, page \in {1, 2} : Search(query, page)
    \/ LoadMore
    \/ \E i \in 1..Len(store.calls), count \in {0, 1}, hasMore \in BOOLEAN :
           StoreSearchResolves(i, count, hasMore)
    \/ \E i \in 1..Len(store.calls) : StoreSearchThrows(i)

SpecStore == InitStore /\ [][NextStore]_vars

\* ---------------------------------------------------------------- C39
\* C39: whatever the interleaving of search and loadMore calls and the order
\* in which their responses arrive, whenever no search is in flight every
\* result in the store was produced for the store's current query, and loading
\* is true exactly while some search is in flight.
C39_StoreConsistent ==
    /\ store.loading <=> (SearchesInFlight # {})
    /\ SearchesInFlight = {} =>
           \A k \in 1..Len(store.results) : store.results[k].query = store.query

\* ============================================================ DNSResolver
DnsCacheTtlMs == 300000
DnsMaxCalls == 2
DnsMaxTicks == 3
DnsMaxNow == StartNow + DnsMaxTicks * CacheTickMs

\* getCachedResponse(key) at time t: the response, or NoDnsResponse for null
getCachedDns(R, key, t) ==
    LET cached == R.cache[key]
    IN  IF cached = NoDnsEntry THEN NoDnsResponse
        ELSE IF t - cached.timestamp > DnsCacheTtlMs THEN NoDnsResponse
        ELSE cached.response

\* the cache after getCachedResponse(key) at time t: cache.delete(key) of an
\* expired entry
afterGetCachedDns(R, key, t) ==
    LET cached == R.cache[key]
    IN  IF cached # NoDnsEntry /\ t - cached.timestamp > DnsCacheTtlMs
        THEN [R.cache EXCEPT ![key] = NoDnsEntry]
        ELSE R.cache

\* setCachedResponse(key, response) at time t
setCachedDns(dnsCache, key, response, t) ==
    [dnsCache EXCEPT ![key] = [response |-> response, timestamp |-> t]]

\* this.fallbackProviders.slice(0, 3), without the limit
fallbackSlice_all(R) == R.fallbackProviders

\* this.fallbackProviders.slice(0, 3)
fallbackSlice(R) == SubSeq(R.fallbackProviders, 1, Min(3, Len(R.fallbackProviders)))

\* resolve(domain, type) up to its first await, at time t. A call keeps: the key,
\* where it is, the providers it has queried so far, the fallbacks its loop
\* runs over, and as history whether the lookup hit, whether it removed an
\* expired entry, and what the call returned.
resolve(R, key, t) ==
    LET cached == getCachedDns(R, key, t)
        cache2 == afterGetCachedDns(R, key, t)
        c0 == [key |-> key, pc |-> "active", queried |-> <<R.activeProvider>>,
               fallbacks |-> <<>>, hit |-> FALSE, evicted |-> (cache2 # R.cache),
               result |-> NoDnsResponse]
    IN  IF cached # NoDnsResponse
        THEN [R EXCEPT !.calls = Append(@, [c0 EXCEPT !.pc = "returned", !.queried = <<>>,
                                                      !.hit = TRUE, !.result = cached])]
        ELSE [R EXCEPT !.cache = cache2, !.calls = Append(@, c0)]

\* queryProvider resolved for call i at time t
providerAnswers(R, i, t) ==
    LET c == R.calls[i]
        response == [provider |-> c.queried[Len(c.queried)], at |-> t]
    IN  [R EXCEPT !.cache = setCachedDns(@, c.key, response, t),
                  !.calls[i].pc = "returned",
                  !.calls[i].result = response]

\* queryProvider rejected for call i: the catch blocks, up to the next await
\* or the throw
providerFails(R, i) ==
    LET c == R.calls[i]
        loop == IF c.pc = "active" THEN fallbackSlice(R) ELSE c.fallbacks
        next == Len(c.queried)
    IN  IF next <= Len(loop)
        THEN [R EXCEPT !.calls[i].pc = "fallback",
                       !.calls[i].fallbacks = loop,
                       !.calls[i].queried = Append(@, loop[next])]
        ELSE [R EXCEPT !.calls[i].pc = "threw", !.calls[i].fallbacks = loop]

DnsPending(i) == resolver.calls[i].pc \in {"active", "fallback"}

Resolve(key) ==
    /\ Len(resolver.calls) < DnsMaxCalls
    /\ resolver' = resolve(resolver, key, now)
    /\ UNCHANGED <<budget, now, cbVars, qVars, sVars, fVars, pVars, store>>

ProviderAnswers(i) ==
    /\ DnsPending(i)
    /\ resolver' = providerAnswers(resolver, i, now)
    /\ UNCHANGED <<budget, now, cbVars, qVars, sVars, fVars, pVars, store>>

ProviderFails(i) ==
    /\ DnsPending(i)
    /\ resolver' = providerFails(resolver, i)
    /\ UNCHANGED <<budget, now, cbVars, qVars, sVars, fVars, pVars, store>>

InitDns ==
    /\ budget = [maxReq |-> 0, maxNow |-> DnsMaxNow, intervals |-> {RequestIntervalMs},
                 priorities |-> {}, errors |-> {}, randoms |-> {0},
                 maxRetries |-> MaxRetries, timeoutMs |-> TimeoutMs]
    /\ now = StartNow
    /\ InitQueueIdle
    /\ InitSearchIdle
    /\ endpoints = [e \in Endpoints |-> Absent]
    /\ nextSweepAt = StartNow + MonitoringPeriodMs
    /\ cbLast = NoCall
    /\ recorded = [e \in Endpoints |-> 0]
    /\ trial = [e \in Endpoints |-> FALSE]
    /\ failAt = [e \in Endpoints |-> -1]
    /\ hoFailAt = [e \in Endpoints |-> -1]

NextDns ==
    \/ LongTick
    \/ \E key \in DnsKeys : Resolve(key)
    \/ \E i \in 1..Len(resolver.calls) : ProviderAnswers(i)
    \/ \E i \in 1..Len(resolver.calls) : ProviderFails(i)

SpecDns == InitDns /\ [][NextDns]_vars

\* ---------------------------------------------------------------- C40
\* the providers a call that misses the cache queries, in order
QueryOrder == <<"cloudflare", "quad9", "adguard", "mullvad">>

\* what the step just taken did for call i of resolve, if it did anything
DnsStepOk(i) ==
    LET c == resolver'.calls[i]
        isNew == i > Len(resolver.calls)
        old == resolver.cache[c.key]
        unexpired == old # NoDnsEntry /\ now - old.timestamp <= DnsCacheTtlMs
    IN  (isNew \/ resolver.calls[i] # c) =>
            /\ ~isNew => DnsPending(i)
            /\ c.hit <=> (isNew /\ unexpired)
            /\ c.hit => /\ c.queried = <<>> /\ c.pc = "returned"
                        /\ c.result = old.response
                        /\ resolver'.cache = resolver.cache
            /\ ~c.hit =>
                   /\ Len(c.queried) \in 1..Len(QueryOrder)
                   /\ c.queried = SubSeq(QueryOrder, 1, Len(c.queried))
                   /\ isNew => /\ Len(c.queried) = 1 /\ c.pc = "active"
                               /\ resolver'.cache = [resolver.cache EXCEPT ![c.key] = NoDnsEntry]
                               /\ c.evicted <=> (old # NoDnsEntry)
                   /\ (~isNew /\ c.pc = "returned") =>
                          /\ c.queried = resolver.calls[i].queried
                          /\ c.result = [provider |-> c.queried[Len(c.queried)], at |-> now]
                          /\ resolver'.cache =
                                 [resolver.cache EXCEPT ![c.key] =
                                     [response |-> c.result, timestamp |-> now]]
                   /\ (~isNew /\ c.pc = "fallback") =>
                          /\ Len(c.queried) = Len(resolver.calls[i].queried) + 1
                          /\ resolver'.cache = resolver.cache
                   /\ c.pc = "threw" =>
                          /\ c.queried = QueryOrder
                          /\ resolver'.cache = resolver.cache

\* C40 as claimed: a cache hit queries no provider; a miss queries the active
\* provider, then on failure up to three fallbacks in fixed order, stopping at
\* the first that answers, whose response is cached under the key; and a call
\* that rejects, every provider it queried having failed, has left the cache
\* unchanged.
C40_ResolveAsClaimed ==
    [][\A i \in 1..Len(resolver'.calls) :
          /\ DnsStepOk(i)
          /\ resolver'.calls[i].pc = "threw" => ~resolver'.calls[i].evicted]_vars

\* C40, amended: as claimed, except that a call that rejects has stored
\* nothing in the cache: the one change it can have made is the removal, at
\* its lookup, of the expired entry of its own key.
C40_Resolve ==
    [][\A i \in 1..Len(resolver'.calls) : DnsStepOk(i)]_vars

\* a call found an expired entry, queried the four providers in order and
\* rejected; the entry had been stored by a fallback provider
C40_Witness ==
    \E i \in 1..Len(resolver.calls) :
        /\ resolver.calls[i].pc = "threw" /\ resolver.calls[i].evicted
        /\ \E j \in 1..Len(resolver.calls) :
               resolver.calls[j].pc = "returned" /\ Len(resolver.calls[j].queried) = 3

====
